---- MODULE Spec2Model ----
(***************************************************************************)
(* A model of the liquid template engine's structural parser               *)
(* (parser.Config.parseTokens), the grammar it consults, and the stages    *)
(* around it.  The parser is a loop over the token sequence; one step of   *)
(* the model is one iteration of that loop (one token), and Finish is the  *)
(* code after the loop.  The AST is a heap of nodes: a node id is a Go     *)
(* pointer, and the insertion point ap (a *[]ASTNode) is the id of the     *)
(* node whose child list it points into.                                   *)
(***************************************************************************)
EXTENDS Integers, Sequences, FiniteSets, TLC

\* Longest token sequence handed to parseTokens.
MaxTokens == 4

\* Most tags and objects written back to back in one scanned source.
MaxRun == 4

\* Most nodes of a rendered template.
MaxNodes == 4

\* Most render calls made on one template.
MaxCalls == 2

----------------------------------------------------------------------------
(* Tokens *)

TextTokenType == "TextTokenType"
TagTokenType == "TagTokenType"
ObjTokenType == "ObjTokenType"

\* The arguments the model writes after each tag name: well-formed ones.
TagArgs(name) ==
  CASE name = "if" -> "x"
    [] name = "for" -> "a in b"
    [] name = "increment" -> "abc"
    [] OTHER -> ""

TagSource(name) ==
  "{% " \o name \o (IF TagArgs(name) = "" THEN "" ELSE " " \o TagArgs(name)) \o " %}"
ObjSource(args) == "{{ " \o args \o " }}"

TextToken(s) == [Type |-> TextTokenType, Name |-> "", Args |-> "", Source |-> s]
TagToken(name) ==
  [Type |-> TagTokenType, Name |-> name, Args |-> TagArgs(name), Source |-> TagSource(name)]
ObjToken(args) == [Type |-> ObjTokenType, Name |-> "", Args |-> args, Source |-> ObjSource(args)]

\* The tag names the model feeds to the parser.
TagNames ==
  {"if", "else", "endif", "for", "endfor", "comment", "endcomment",
   "raw", "endraw", "increment", "undefined_tag"}

\* Expressions the expression parser accepts / rejects (expressions.Parse).
WellFormedExprs == {"x"}
MalformedExprs == {"syntax error"}

ExprParseOk(args) == args \in WellFormedExprs

Tokens ==
  {TextToken("t")}
    \cup {ObjToken(a) : a \in WellFormedExprs \cup MalformedExprs}
    \cup {TagToken(n) : n \in TagNames}

----------------------------------------------------------------------------
(* Grammar: the blocks AddStandardTags registers *)

\* c.AddBlock(name) for every standard block.
StandardBlocks ==
  {"capture", "case", "comment", "for", "if", "raw", "tablerow", "unless"}

\* s.AddBlock("error_block") of addCompilerTestTags.
CompilerTestBlocks == {"error_block"}

\* Every block the grammar knows.
Blocks == StandardBlocks \cup CompilerTestBlocks

\* .Clause(name) calls: the blocks each clause may appear in, sorted by name.
ClauseParents(name) ==
  CASE name = "when" -> <<"case">>
    [] name = "else" -> <<"case", "if", "unless">>
    [] name = "elsif" -> <<"if", "unless">>
    [] OTHER -> <<>>

Range(q) == {q[k] : k \in 1..Len(q)}

ClauseNames == {"when", "else", "elsif"}

EndName(block) == "end" \o block

NilSyntax == ""

IsRegisteredBlock(name) ==
  \/ name \in Blocks
  \/ name \in ClauseNames
  \/ \E b \in Blocks : name = EndName(b)

\* Grammar.BlockSyntax(name): the syntax record of a registered name.
BlockSyntax(name) ==
  IF name \in Blocks
  THEN [name |-> name, isClause |-> FALSE, isEnd |-> FALSE, startName |-> "",
        parents |-> <<>>]
  ELSE IF name \in ClauseNames
  THEN [name |-> name, isClause |-> TRUE, isEnd |-> FALSE, startName |-> "",
        parents |-> ClauseParents(name)]
  ELSE [name |-> name, isClause |-> FALSE, isEnd |-> TRUE,
        startName |-> CHOOSE b \in Blocks : name = EndName(b),
        parents |-> <<>>]

IsBlockStart(cs) == ~cs.isClause /\ ~cs.isEnd
IsClause(cs) == cs.isClause
IsBlockEnd(cs) == cs.isEnd
RequiresParent(cs) == cs.isClause \/ cs.isEnd

\* parent is the TagName of the active syntax, NilSyntax when none.
CanHaveParent(cs, parent) ==
  IF parent = NilSyntax THEN FALSE
  ELSE IF cs.isEnd THEN parent = cs.startName
  ELSE parent \in Range(cs.parents)

\* The list of tags cs may appear in.
ParentTags(cs) == IF cs.isEnd THEN <<cs.startName>> ELSE cs.parents

----------------------------------------------------------------------------
(* Parser state: the locals of parseTokens *)

VARIABLES
  tokens,     \* the tokens consumed so far (the input, once Finish has run)
  nodes,      \* the AST heap; nodes[1] is root
  ap,         \* id of the node whose child list new nodes are appended to
  sd,         \* TagName of the current block syntax, NilSyntax when nil
  bn,         \* id of the current block node, NilNode when nil
  stack,      \* stack of frames
  rawTag,     \* id of the current raw node, NilNode when nil
  inComment,
  inRaw,
  pc,         \* "loop" in the for loop, "aborted" after a return inside it,
              \* "done" after a return below it, "panic" after a Go panic
  ret,        \* what parseTokens returned
  compiled,   \* what Compile returned, once it was called
  scanDelims, \* the delimiter list given to Scan
  scanCase,   \* the parts the source given to Scan is made of
  scanSrc,    \* the source given to Scan
  scanOut,    \* the tokens Scan returned
  scanPc,     \* "idle", "called" once Scan has its arguments, "scanned"
  cfg,        \* the expressions.Config: filters and the two error modes
  bindings,   \* the variable bindings of an evaluation
  lookup,     \* the last lookup made with cfg, and what came of it
  template,   \* the compiled Template: its nodes, in order
  states,     \* the state mappings made so far; an index is a Go map reference
  calls,      \* the render calls made so far on the template
  created,    \* what newTemplate returned, once it was called
  valueCall,  \* a call into values or filters: the function and its arguments
  valueRet    \* what that call returned, once it has

parserVars ==
  <<tokens, nodes, ap, sd, bn, stack, rawTag, inComment, inRaw, pc, ret, compiled>>

scanVars == <<scanDelims, scanCase, scanSrc, scanOut, scanPc>>

lookupVars == <<cfg, bindings, lookup>>

\* What the parser leaves alone.
renderVars == <<template, states, calls, created>>

valueVars == <<valueCall, valueRet>>

otherVars == <<scanVars, lookupVars, renderVars, valueVars>>

vars == <<parserVars, otherVars>>

----------------------------------------------------------------------------
(* Scanner.  A source text is a sequence of one-character strings; Scan    *)
(* cuts it into text, tag and object tokens at the delimiter markers.      *)

\* The default markers {{ }} {% %}, as [objectLeft, objectRight, tagLeft, tagRight].
DefaultDelims == <<<<"{", "{">>, <<"}", "}">>, <<"{", "%">>, <<"%", "}">>>>

\* The delimiter list is not looked at: the defaults, always.
DelimsIgnored(delims) == DefaultDelims

\* An empty (or nil) delimiter list selects the defaults.
DelimsOrDefault(delims) == IF delims = <<>> THEN DefaultDelims ELSE delims

IsSpace(c) == c \in {" ", "\t", "\n"}

\* The marker m stands in s at position i.
HasAt(s, i, m) ==
  i >= 1 /\ i + Len(m) - 1 <= Len(s) /\ SubSeq(s, i, i + Len(m) - 1) = m

\* The first position from i on where m stands in s, 0 when there is none.
FindFrom(s, i, m) ==
  IF \E j \in i..Len(s) : HasAt(s, j, m)
  THEN CHOOSE j \in i..Len(s) : HasAt(s, j, m) /\ \A k \in i..(j - 1) : ~HasAt(s, k, m)
  ELSE 0

\* s without its leading and trailing whitespace.
TrimSpace(s) ==
  LET inked == {i \in 1..Len(s) : ~IsSpace(s[i])}
  IN IF inked = {} THEN <<>>
     ELSE SubSeq(s, CHOOSE i \in inked : \A j \in inked : i <= j,
                    CHOOSE i \in inked : \A j \in inked : i >= j)

\* The interior with one flag for both ends: the right one copies the left.
InteriorCoupled(inner) ==
  LET left == inner # <<>> /\ Head(inner) = "-"
      rest == IF left THEN Tail(inner) ELSE inner
      right == rest # <<>> /\ rest[Len(rest)] = "-"
      core == IF right THEN SubSeq(rest, 1, Len(rest) - 1) ELSE rest
  IN [TrimLeft |-> left, TrimRight |-> left, body |-> TrimSpace(core)]

\* The interior of a tag or object: a leading - and a trailing - are the trim
\* markers; what is left, trimmed, is the body.
Interior(inner) ==
  LET left == inner # <<>> /\ Head(inner) = "-"
      rest == IF left THEN Tail(inner) ELSE inner
      right == rest # <<>> /\ rest[Len(rest)] = "-"
      core == IF right THEN SubSeq(rest, 1, Len(rest) - 1) ELSE rest
  IN [TrimLeft |-> left, TrimRight |-> right, body |-> TrimSpace(core)]

\* The body of a tag: the name up to the first whitespace, the rest trimmed.
TagName(body) ==
  LET spaces == {i \in 1..Len(body) : IsSpace(body[i])}
  IN IF spaces = {} THEN body
     ELSE SubSeq(body, 1, (CHOOSE i \in spaces : \A j \in spaces : i <= j) - 1)

\* The arguments with the whitespace after the name left on them.
TagArgsUntrimmed(body) == SubSeq(body, Len(TagName(body)) + 1, Len(body))

TagArgsOf(body) == TrimSpace(SubSeq(body, Len(TagName(body)) + 1, Len(body)))

ScannedText(src) ==
  [Type |-> TextTokenType, Name |-> <<>>, Args |-> <<>>, Source |-> src,
   TrimLeft |-> FALSE, TrimRight |-> FALSE]

\* A tag token that keeps the interior as its Source, the markers dropped.
ScannedTagInterior(src, inner) ==
  [Type |-> TagTokenType, Name |-> TagName(Interior(inner).body),
   Args |-> TagArgsOf(Interior(inner).body), Source |-> inner,
   TrimLeft |-> Interior(inner).TrimLeft, TrimRight |-> Interior(inner).TrimRight]

ScannedTag(src, inner) ==
  [Type |-> TagTokenType, Name |-> TagName(Interior(inner).body),
   Args |-> TagArgsOf(Interior(inner).body), Source |-> src,
   TrimLeft |-> Interior(inner).TrimLeft, TrimRight |-> Interior(inner).TrimRight]

ScannedObject(src, inner) ==
  [Type |-> ObjTokenType, Name |-> <<>>, Args |-> Interior(inner).body, Source |-> src,
   TrimLeft |-> Interior(inner).TrimLeft, TrimRight |-> Interior(inner).TrimRight]

\* A token opens at p: left stands at p, right follows it, and the interior
\* has a body.  The result is the position after right, 0 when none opens.
\* An opener with no closer, or with nothing inside, is left as text.
TokenEnd(s, p, left, right) ==
  IF HasAt(s, p, left) /\ FindFrom(s, p + Len(left), right) # 0
     /\ Interior(SubSeq(s, p + Len(left), FindFrom(s, p + Len(left), right) - 1)).body # <<>>
  THEN FindFrom(s, p + Len(left), right) + Len(right)
  ELSE 0

\* The text between the markers of the token s[p..e-1].
Between(s, p, e, left, right) == SubSeq(s, p + Len(left), e - Len(right) - 1)

\* The text pending since position from, as a token, even when empty.
PendingTextAlways(s, from, p) == <<ScannedText(SubSeq(s, from, p - 1))>>

\* The text pending since position from, as a token; no token when empty.
PendingText(s, from, p) ==
  IF from < p THEN <<ScannedText(SubSeq(s, from, p - 1))>> ELSE <<>>

\* Scan s from position p on, the text since position from still pending.
RECURSIVE ScanFrom(_, _, _, _)
ScanFrom(s, p, from, d) ==
  IF p > Len(s) THEN PendingText(s, from, p)
  ELSE IF TokenEnd(s, p, d[1], d[2]) # 0
  THEN LET e == TokenEnd(s, p, d[1], d[2])
       IN PendingText(s, from, p)
            \o <<ScannedObject(SubSeq(s, p, e - 1), Between(s, p, e, d[1], d[2]))>>
            \o ScanFrom(s, e, e, d)
  ELSE IF TokenEnd(s, p, d[3], d[4]) # 0
  THEN LET e == TokenEnd(s, p, d[3], d[4])
       IN PendingText(s, from, p)
            \o <<ScannedTag(SubSeq(s, p, e - 1), Between(s, p, e, d[3], d[4]))>>
            \o ScanFrom(s, e, e, d)
  ELSE ScanFrom(s, p + 1, from, d)

\* Scan(source, loc, delims)
Scan(source, delims) == ScanFrom(source, 1, 1, DelimsOrDefault(delims))

----------------------------------------------------------------------------
(* The sources handed to Scan: text, a tag, text, an object, text *)

\* The delimiter set of TestScan_delims.
TestDelims == 
  <<<<"O", "B", "J", "E", "C", "T", "@", "L", "E", "F", "T">>,
    <<"O", "B", "J", "E", "C", "T", "#", "R", "I", "G", "H", "T">>,
    <<"T", "A", "G", "*", "L", "E", "F", "T">>,
    <<"T", "A", "G", "!", "R", "I", "G", "H", "T">>>>

\* Another delimiter set, of one and three characters.
OddDelims == <<<<"[">>, <<"]">>, <<"<", "!", "-">>, <<"-", "!", ">">>>>

DelimSets == {<<>>, DefaultDelims, TestDelims, OddDelims}

\* Texts that hold no marker of any delimiter set above.
PlainTexts == {<<"p", "r", "e">>, <<"a", " ", "{", "\n">>}

ScanTagNames == {<<"t", "a", "g">>, <<"i", "f">>}
ScanTagArgs == {<<>>, <<"a", "r", "g", "s">>, <<"a", " ", "<", " ", "b">>}
ScanExprs == {<<"o", "b", "j", "e", "c", "t">>, <<"x", " ", "|", " ", "f", ":", " ", "1">>}
Paddings == {<<>>, <<" ">>, <<" ", "\t">>}

Dash(on) == IF on THEN <<"-">> ELSE <<>>

\* A well-formed tag: left marker, trim mark, padding, name, arguments after
\* whitespace, padding, trim mark, right marker.
TagSrc(d, c) ==
  d[3] \o Dash(c.tagTrimLeft) \o c.pad \o c.name
    \o (IF c.args = <<>> THEN <<>> ELSE <<" ">> \o c.args)
    \o c.pad \o Dash(c.tagTrimRight) \o d[4]

\* A well-formed object.
ObjSrc(d, c) ==
  d[1] \o Dash(c.objTrimLeft) \o c.pad \o c.expr \o c.pad \o Dash(c.objTrimRight) \o d[2]

ScanCases ==
  [pre : PlainTexts, mid : PlainTexts, post : {<<"p", "o", "s", "t">>},
   name : ScanTagNames, args : ScanTagArgs, expr : ScanExprs, pad : Paddings,
   tagTrimLeft : BOOLEAN, tagTrimRight : BOOLEAN,
   objTrimLeft : BOOLEAN, objTrimRight : BOOLEAN]

FivePartSource(d, c) == c.pre \o TagSrc(d, c) \o c.mid \o ObjSrc(d, c) \o c.post

NoCase == [pre |-> <<>>]

ScanIdle ==
  /\ scanDelims = <<>>
  /\ scanCase = NoCase
  /\ scanSrc = <<>>
  /\ scanOut = <<>>
  /\ scanPc = "idle"

----------------------------------------------------------------------------
(* expressions.Config: the filters and the undefined-name policies *)

StrictMode == "StrictMode"
LaxMode == "LaxMode"

\* nil, the value of an interface{} that holds nothing.
Nil == "nil"

\* A map with no key.
EmptyMap == [k \in {} |-> Nil]

\* NewConfig(): no filter yet, strict for filters, lax for variables.
NewConfig ==
  [filters |-> EmptyMap, FilterErrorMode |-> StrictMode, VariableErrorMode |-> LaxMode]

NoLookup == [op |-> "none"]

LookupIdle ==
  /\ cfg = NewConfig
  /\ bindings = EmptyMap
  /\ lookup = NoLookup

----------------------------------------------------------------------------
(* Rendering: nothing is rendered while the template is parsed *)

\* newTemplate was not called.
NotCreated == [called |-> FALSE, isNil |-> TRUE, root |-> 0, err |-> <<>>]

RenderIdle ==
  /\ template = <<>>
  /\ states = <<>>
  /\ calls = <<>>
  /\ created = NotCreated

----------------------------------------------------------------------------
(* Values and filters: nothing is converted while the template is parsed *)

NoCall == [fn |-> "none"]

NotReturned == [done |-> FALSE]

ValueIdle ==
  /\ valueCall = NoCall
  /\ valueRet = NotReturned

----------------------------------------------------------------------------
(* The parser's initial state and its steps *)

NilNode == 0
Root == 1

NoError == <<>>

\* AST node constructors.  tok is the index in tokens of the node's Token.
ASTSeq == [kind |-> "Seq", tok |-> 0, syntax |-> NilSyntax, Body |-> <<>>,
           Clauses |-> <<>>, Slices |-> <<>>]
ASTText(i) == [kind |-> "Text", tok |-> i, syntax |-> NilSyntax, Body |-> <<>>,
               Clauses |-> <<>>, Slices |-> <<>>]
ASTObject(i) == [kind |-> "Object", tok |-> i, syntax |-> NilSyntax, Body |-> <<>>,
                 Clauses |-> <<>>, Slices |-> <<>>]
ASTTag(i) == [kind |-> "Tag", tok |-> i, syntax |-> NilSyntax, Body |-> <<>>,
              Clauses |-> <<>>, Slices |-> <<>>]
ASTBlock(i, cs) == [kind |-> "Block", tok |-> i, syntax |-> cs.name, Body |-> <<>>,
                    Clauses |-> <<>>, Slices |-> <<>>]
ASTRaw == [kind |-> "Raw", tok |-> 0, syntax |-> NilSyntax, Body |-> <<>>,
           Clauses |-> <<>>, Slices |-> <<>>]

\* The new node put in front of its siblings.
PrependNew(ns, target, n) ==
  [Append(ns, n) EXCEPT ![target].Body = <<Len(ns) + 1>> \o @]

\* *ap = append(*ap, n) for a freshly allocated node n.
AppendNew(ns, target, n) ==
  [Append(ns, n) EXCEPT ![target].Body = Append(@, Len(ns) + 1)]

ParserInit ==
  /\ tokens = <<>>
  /\ nodes = <<ASTSeq>>
  /\ ap = Root
  /\ sd = NilSyntax
  /\ bn = NilNode
  /\ stack = <<>>
  /\ rawTag = NilNode
  /\ inComment = FALSE
  /\ inRaw = FALSE
  /\ pc = "loop"
  /\ ret = [ast |-> NilNode, err |-> NoError, at |-> 0]
  /\ compiled = [called |-> FALSE, root |-> NilNode, err |-> NoError]

Init == ParserInit /\ ScanIdle /\ LookupIdle /\ RenderIdle /\ ValueIdle

\* The loop takes the next token of the input.
Take(tok) ==
  /\ pc = "loop"
  /\ Len(tokens) < MaxTokens
  /\ tokens' = Append(tokens, tok)
  /\ UNCHANGED otherVars

----------------------------------------------------------------------------
(* Error messages, as the list of pieces the format string joins *)

Quote(str) == "\"" \o str \o "\""

\* strings.Join(names, sep), piece by piece.
RECURSIVE Join(_, _)
Join(names, sep) ==
  IF Len(names) = 0 THEN <<>>
  ELSE IF Len(names) = 1 THEN <<names[1]>>
  ELSE <<names[1], sep>> \o Join(Tail(names), sep)

\* Errorf(tokV, "%s not inside %s%s", tokV.Name, Join(ParentTags, " or "), suffix)
ParentErrorMsg(name, cs, parent) ==
  <<name, " not inside ">> \o Join(ParentTags(cs), " or ")
    \o (IF parent # NilSyntax THEN <<"; immediate parent is ", parent>> ELSE <<>>)

\* Errorf(bn, "unterminated %q block", bn.Name)
UnterminatedMsg(name) == <<"unterminated ", Quote(name), " block">>

\* WrapError(err, tokV) of the expression parser's error.
ExprErrorMsg(args) == <<"syntax error">>

\* The error returned together with the tree built so far.
ReturnErrorWithTree(msg, at) == [ast |-> Root, err |-> msg, at |-> at]

\* return nil, err
ReturnError(msg, at) == [ast |-> NilNode, err |-> msg, at |-> at]

\* return root, nil
ReturnRoot == [ast |-> Root, err |-> NoError, at |-> 0]

----------------------------------------------------------------------------
(* One iteration of the token loop, by case of the switch *)

IsTag(tok, name) == tok.Type = TagTokenType /\ tok.Name = name

\* Comment mode left by any registered block-end tag.
CaseInCommentAnyEnd(tok) ==
  /\ Take(tok)
  /\ inComment
  /\ inComment' = IF tok.Type = TagTokenType /\ IsRegisteredBlock(tok.Name)
                      /\ IsBlockEnd(BlockSyntax(tok.Name))
                   THEN FALSE ELSE inComment
  /\ UNCHANGED <<nodes, ap, sd, bn, stack, rawTag, inRaw, pc, ret, compiled>>

\* case inComment
CaseInComment(tok) ==
  /\ Take(tok)
  /\ inComment
  /\ inComment' = IF IsTag(tok, "endcomment") THEN FALSE ELSE inComment
  /\ UNCHANGED <<nodes, ap, sd, bn, stack, rawTag, inRaw, pc, ret, compiled>>

\* Raw mode with the else dropped: the endraw tag's source is kept as a slice.
CaseInRawKeepsEnd(tok) ==
  /\ Take(tok)
  /\ ~inComment /\ inRaw
  /\ inRaw' = IF IsTag(tok, "endraw") THEN FALSE ELSE inRaw
  /\ nodes' = IF rawTag # NilNode
              THEN [nodes EXCEPT ![rawTag].Slices = Append(@, tok.Source)]
              ELSE nodes
  /\ UNCHANGED <<ap, sd, bn, stack, rawTag, inComment, pc, ret, compiled>>

\* case inRaw
CaseInRaw(tok) ==
  /\ Take(tok)
  /\ ~inComment /\ inRaw
  /\ IF IsTag(tok, "endraw")
     THEN inRaw' = FALSE /\ UNCHANGED nodes
     ELSE /\ UNCHANGED inRaw
          /\ nodes' = IF rawTag # NilNode
                      THEN [nodes EXCEPT ![rawTag].Slices = Append(@, tok.Source)]
                      ELSE nodes
  /\ UNCHANGED <<ap, sd, bn, stack, rawTag, inComment, pc, ret, compiled>>

\* case tokV.Type == ObjTokenType
CaseObject(tok) ==
  /\ Take(tok)
  /\ ~inComment /\ ~inRaw
  /\ tok.Type = ObjTokenType
  /\ IF ~ExprParseOk(tok.Args)
     THEN /\ pc' = "aborted"
          /\ ret' = ReturnError(ExprErrorMsg(tok.Args), Len(tokens) + 1)
          /\ UNCHANGED nodes
     ELSE /\ nodes' = AppendNew(nodes, ap, ASTObject(Len(tokens) + 1))
          /\ UNCHANGED <<pc, ret>>
  /\ UNCHANGED <<ap, sd, bn, stack, rawTag, inComment, inRaw, compiled>>

\* case tokV.Type == TextTokenType
CaseText(tok) ==
  /\ Take(tok)
  /\ ~inComment /\ ~inRaw
  /\ tok.Type = TextTokenType
  /\ nodes' = AppendNew(nodes, ap, ASTText(Len(tokens) + 1))
  /\ UNCHANGED <<ap, sd, bn, stack, rawTag, inComment, inRaw, pc, ret, compiled>>

\* A tag outside the grammar refused by the parser instead of kept as a node.
CasePlainTagRefused(tok) ==
  /\ Take(tok)
  /\ ~inComment /\ ~inRaw
  /\ tok.Type = TagTokenType
  /\ ~IsRegisteredBlock(tok.Name)
  /\ pc' = "aborted"
  /\ ret' = ReturnError(<<"undefined tag ", Quote(tok.Name)>>, Len(tokens) + 1)
  /\ UNCHANGED <<nodes, ap, sd, bn, stack, rawTag, inComment, inRaw, compiled>>

\* case tokV.Type == TagTokenType, the name not registered as a block
CasePlainTag(tok) ==
  /\ Take(tok)
  /\ ~inComment /\ ~inRaw
  /\ tok.Type = TagTokenType
  /\ ~IsRegisteredBlock(tok.Name)
  /\ nodes' = AppendNew(nodes, ap, ASTTag(Len(tokens) + 1))
  /\ UNCHANGED <<ap, sd, bn, stack, rawTag, inComment, inRaw, pc, ret, compiled>>

\* The tag cases below share this guard: a tag whose name is registered.
BlockTag(tok) ==
  /\ ~inComment /\ ~inRaw
  /\ tok.Type = TagTokenType
  /\ IsRegisteredBlock(tok.Name)

\* case tokV.Name == "comment"
CaseComment(tok) ==
  /\ Take(tok)
  /\ BlockTag(tok)
  /\ tok.Name = "comment"
  /\ inComment' = TRUE
  /\ UNCHANGED <<nodes, ap, sd, bn, stack, rawTag, inRaw, pc, ret, compiled>>

\* case tokV.Name == "raw"
CaseRaw(tok) ==
  /\ Take(tok)
  /\ BlockTag(tok)
  /\ tok.Name \notin {"comment"}
  /\ tok.Name = "raw"
  /\ inRaw' = TRUE
  /\ rawTag' = Len(nodes) + 1
  /\ nodes' = AppendNew(nodes, ap, ASTRaw)
  /\ UNCHANGED <<ap, sd, bn, stack, inComment, pc, ret, compiled>>

\* The switch reached the syntax cases: neither comment nor raw.
SyntaxTag(tok) == BlockTag(tok) /\ tok.Name \notin {"comment", "raw"}

\* The parent check without CanHaveParent: any open block satisfies it.
ParentViolationAnyParent(cs, parent) ==
  RequiresParent(cs) /\ parent = NilSyntax

\* cs.RequiresParent() && (sd == nil || !cs.CanHaveParent(sd))
ParentViolation(cs, parent) ==
  RequiresParent(cs) /\ (parent = NilSyntax \/ ~CanHaveParent(cs, parent))

\* case cs.RequiresParent() && (sd == nil || !cs.CanHaveParent(sd))
CaseParentError(tok) ==
  /\ Take(tok)
  /\ SyntaxTag(tok)
  /\ ParentViolation(BlockSyntax(tok.Name), sd)
  /\ pc' = "aborted"
  /\ ret' = ReturnError(ParentErrorMsg(tok.Name, BlockSyntax(tok.Name), sd),
                         Len(tokens) + 1)
  /\ UNCHANGED <<nodes, ap, sd, bn, stack, rawTag, inComment, inRaw, compiled>>

\* A push that saves no frame.
PushNothing(stk, syntax, node, target) == stk

\* push(): stack = append(stack, frame{syntax: sd, node: bn, ap: ap})
Push(stk, syntax, node, target) ==
  Append(stk, [syntax |-> syntax, node |-> node, ap |-> target])

\* case cs.IsBlockStart()
CaseBlockStart(tok) ==
  /\ Take(tok)
  /\ SyntaxTag(tok)
  /\ ~ParentViolation(BlockSyntax(tok.Name), sd)
  /\ IsBlockStart(BlockSyntax(tok.Name))
  /\ stack' = Push(stack, sd, bn, ap)
  /\ sd' = BlockSyntax(tok.Name).name
  /\ bn' = Len(nodes) + 1
  /\ nodes' = AppendNew(nodes, ap, ASTBlock(Len(tokens) + 1, BlockSyntax(tok.Name)))
  /\ ap' = Len(nodes) + 1
  /\ UNCHANGED <<rawTag, inComment, inRaw, pc, ret, compiled>>

\* The new clause put in front of the earlier clauses.
PrependClause(ns, block, n) ==
  [Append(ns, n) EXCEPT ![block].Clauses = <<Len(ns) + 1>> \o @]

\* bn.Clauses = append(bn.Clauses, n) for a freshly allocated clause n.
AppendClause(ns, block, n) ==
  [Append(ns, n) EXCEPT ![block].Clauses = Append(@, Len(ns) + 1)]

\* case cs.IsClause(); bn.Clauses with bn == nil is a nil dereference
CaseClause(tok) ==
  /\ Take(tok)
  /\ SyntaxTag(tok)
  /\ ~ParentViolation(BlockSyntax(tok.Name), sd)
  /\ ~IsBlockStart(BlockSyntax(tok.Name))
  /\ IsClause(BlockSyntax(tok.Name))
  /\ IF bn = NilNode
     THEN pc' = "panic" /\ UNCHANGED <<nodes, ap>>
     ELSE /\ nodes' = AppendClause(nodes, bn, ASTBlock(Len(tokens) + 1, BlockSyntax(tok.Name)))
          /\ ap' = Len(nodes) + 1
          /\ UNCHANGED pc
  /\ UNCHANGED <<sd, bn, stack, rawTag, inComment, inRaw, ret, compiled>>

\* pop() taking the oldest frame: f := stack[0]
Bottom(stk) == stk[1]

\* pop(): f := stack[len(stack)-1]; the frame restored
Top(stk) == stk[Len(stk)]

\* pop(): stack = stack[:len(stack)-1]
Pop(stk) == SubSeq(stk, 1, Len(stk) - 1)

\* case cs.IsBlockEnd(); stack[len(stack)-1] on an empty stack panics
CaseBlockEnd(tok) ==
  /\ Take(tok)
  /\ SyntaxTag(tok)
  /\ ~ParentViolation(BlockSyntax(tok.Name), sd)
  /\ ~IsBlockStart(BlockSyntax(tok.Name))
  /\ ~IsClause(BlockSyntax(tok.Name))
  /\ IsBlockEnd(BlockSyntax(tok.Name))
  /\ IF stack = <<>>
     THEN pc' = "panic" /\ UNCHANGED <<stack, sd, bn, ap>>
     ELSE /\ stack' = Pop(stack)
          /\ sd' = Top(stack).syntax
          /\ bn' = Top(stack).node
          /\ ap' = Top(stack).ap
          /\ UNCHANGED pc
  /\ UNCHANGED <<nodes, rawTag, inComment, inRaw, ret, compiled>>

\* Finish without the check of bn: every input that reaches the end parses.
FinishUnchecked ==
  /\ pc = "loop"
  /\ pc' = "done"
  /\ ret' = ReturnRoot
  /\ UNCHANGED <<tokens, nodes, ap, sd, bn, stack, rawTag, inComment, inRaw, compiled, otherVars>>

\* Finish with comment and raw checked like blocks: input that ends inside
\* either is refused.
FinishModesChecked ==
  /\ pc = "loop"
  /\ pc' = "done"
  /\ ret' = IF bn # NilNode
            THEN ReturnError(UnterminatedMsg(tokens[nodes[bn].tok].Name), nodes[bn].tok)
            ELSE IF inComment \/ inRaw
            THEN ReturnError(UnterminatedMsg(IF inComment THEN "comment" ELSE "raw"),
                             Len(tokens))
            ELSE ReturnRoot
  /\ UNCHANGED <<tokens, nodes, ap, sd, bn, stack, rawTag, inComment, inRaw, compiled, otherVars>>

\* Finish reporting the outermost open block: the one the oldest frame but
\* one saved, or bn when it is the only one.
FinishOutermost ==
  /\ pc = "loop"
  /\ pc' = "done"
  /\ ret' = IF bn # NilNode
            THEN LET outer == IF Len(stack) >= 2 THEN stack[2].node ELSE bn
                 IN ReturnError(UnterminatedMsg(tokens[nodes[outer].tok].Name),
                                nodes[outer].tok)
            ELSE ReturnRoot
  /\ UNCHANGED <<tokens, nodes, ap, sd, bn, stack, rawTag, inComment, inRaw, compiled, otherVars>>

\* After the loop: if bn != nil { return nil, Errorf(...) }; return root, nil
Finish ==
  /\ pc = "loop"
  /\ pc' = "done"
  /\ ret' = IF bn # NilNode
            THEN ReturnError(UnterminatedMsg(tokens[nodes[bn].tok].Name), nodes[bn].tok)
            ELSE ReturnRoot
  /\ UNCHANGED <<tokens, nodes, ap, sd, bn, stack, rawTag, inComment, inRaw, compiled, otherVars>>

----------------------------------------------------------------------------
(* Compile: parse, then compile the tree node by node *)

\* c.AddTag(name, ...) for every standard tag.
StandardTags ==
  {"assign", "include", "increment", "decrement", "break", "continue", "cycle"}

UndefinedTagMsg(name) == <<"undefined tag ", Quote(name)>>

\* The error of compiling node n and, for a block, its Body and then its
\* Clauses: the first one met, NoError when everything compiles.  The
\* compilers of the registered tags and blocks accept the model's arguments.
\* The statements expressions.ParseStatement(AssignStatementSelector, _) accepts.
WellFormedAssigns == {"av = 1"}

\* The error the compiler registered for a tag returns for its arguments:
\* assignTag returns the error of parsing the statement.
TagCompilerError(name, args) ==
  IF name = "assign" /\ args \notin WellFormedAssigns THEN <<"syntax error">>
  ELSE NoError

\* The error the compiler registered for a block returns.
BlockCompilerError(name) ==
  IF name = "error_block" THEN <<"block compiler error">> ELSE NoError

RECURSIVE CompileNode(_), CompileNodes(_)
CompileNode(n) ==
  IF nodes[n].kind = "Tag"
  THEN IF tokens[nodes[n].tok].Name \in StandardTags
       THEN TagCompilerError(tokens[nodes[n].tok].Name, tokens[nodes[n].tok].Args)
       ELSE UndefinedTagMsg(tokens[nodes[n].tok].Name)
  ELSE IF nodes[n].kind \in {"Seq", "Block"}
  THEN IF CompileNodes(nodes[n].Body) # NoError THEN CompileNodes(nodes[n].Body)
       ELSE IF CompileNodes(nodes[n].Clauses) # NoError THEN CompileNodes(nodes[n].Clauses)
       ELSE IF nodes[n].kind = "Block" THEN BlockCompilerError(tokens[nodes[n].tok].Name)
       ELSE NoError
  ELSE NoError
CompileNodes(ids) ==
  IF ids = <<>> THEN NoError
  ELSE IF CompileNode(Head(ids)) # NoError THEN CompileNode(Head(ids))
  ELSE CompileNodes(Tail(ids))

\* Config.Compile: a parse error is returned as it is; otherwise the tree
\* compiles as a whole or not at all.
Compile ==
  /\ pc \in {"aborted", "done"}
  /\ ~compiled.called
  /\ compiled' =
       IF ret.err # NoError THEN [called |-> TRUE, root |-> NilNode, err |-> ret.err]
       ELSE IF CompileNode(ret.ast) # NoError
       THEN [called |-> TRUE, root |-> NilNode, err |-> CompileNode(ret.ast)]
       ELSE [called |-> TRUE, root |-> ret.ast, err |-> NoError]
  /\ UNCHANGED <<tokens, nodes, ap, sd, bn, stack, rawTag, inComment, inRaw, pc, ret, otherVars>>

\* A Template is returned whatever Compile returned.
NewTemplateUnchecked ==
  /\ compiled.called
  /\ ~created.called
  /\ created' = [called |-> TRUE, isNil |-> FALSE, root |-> compiled.root,
                 err |-> compiled.err]
  /\ UNCHANGED <<parserVars, valueVars, scanVars, lookupVars, template, states, calls>>

\* newTemplate: root, err := cfg.Compile(...); on an error return nil, err,
\* otherwise &Template{root, cfg}, nil.
NewTemplate ==
  /\ compiled.called
  /\ ~created.called
  /\ created' =
       IF compiled.err # NoError
       THEN [called |-> TRUE, isNil |-> TRUE, root |-> NilNode, err |-> compiled.err]
       ELSE [called |-> TRUE, isNil |-> FALSE, root |-> compiled.root, err |-> NoError]
  /\ UNCHANGED <<parserVars, valueVars, scanVars, lookupVars, template, states, calls>>

Next ==
  \/ \E tok \in Tokens : CaseInComment(tok)
  \/ \E tok \in Tokens : CaseInRaw(tok)
  \/ \E tok \in Tokens : CaseObject(tok)
  \/ \E tok \in Tokens : CaseText(tok)
  \/ \E tok \in Tokens : CasePlainTag(tok)
  \/ \E tok \in Tokens : CaseComment(tok)
  \/ \E tok \in Tokens : CaseRaw(tok)
  \/ \E tok \in Tokens : CaseParentError(tok)
  \/ \E tok \in Tokens : CaseBlockStart(tok)
  \/ \E tok \in Tokens : CaseClause(tok)
  \/ \E tok \in Tokens : CaseBlockEnd(tok)
  \/ Finish
  \/ Compile

Spec == Init /\ [][Next]_vars

----------------------------------------------------------------------------
(* From tokens to a Template: parse, compile, newTemplate *)

AssignToken(args) ==
  [Type |-> TagTokenType, Name |-> "assign", Args |-> args,
   Source |-> "{% assign " \o args \o " %}"]

\* The tokens of compilerErrorTests and parseErrorTests.
CompileTokens ==
  {TextToken("t"), ObjToken("syntax error"),
   TagToken("if"), TagToken("endif"),
   TagToken("error_block"), TagToken("enderror_block"),
   TagToken("undefined_tag"), AssignToken("av = 1"), AssignToken("v x y z")}

\* The cases of the loop these tokens can take, then Compile and newTemplate.
CompileNext ==
  \/ \E tok \in CompileTokens : CaseObject(tok)
  \/ \E tok \in CompileTokens : CaseText(tok)
  \/ \E tok \in CompileTokens : CasePlainTag(tok)
  \/ \E tok \in CompileTokens : CaseParentError(tok)
  \/ \E tok \in CompileTokens : CaseBlockStart(tok)
  \/ \E tok \in CompileTokens : CaseBlockEnd(tok)
  \/ Finish
  \/ Compile
  \/ NewTemplate

SpecCompile == Init /\ [][CompileNext]_vars

----------------------------------------------------------------------------
(* Scanning on its own: Scan is called once, on one of the sources above *)

ScanInit ==
  /\ ParserInit
  /\ LookupIdle
  /\ RenderIdle
  /\ ValueIdle
  /\ scanDelims \in DelimSets
  /\ scanCase \in ScanCases
  /\ scanSrc = FivePartSource(DelimsOrDefault(scanDelims), scanCase)
  /\ scanOut = <<>>
  /\ scanPc = "called"

ScanCall ==
  /\ scanPc = "called"
  /\ scanOut' = Scan(scanSrc, scanDelims)
  /\ scanPc' = "scanned"
  /\ UNCHANGED <<parserVars, valueVars, scanDelims, scanCase, scanSrc, lookupVars, renderVars>>

ScanNext == ScanCall

SpecScan == ScanInit /\ [][ScanNext]_vars

----------------------------------------------------------------------------
(* Scanning a source written with one set of markers under another *)

\* The marker sets a source is written with.
WrittenDelims == {DefaultDelims, TestDelims, OddDelims}

DelimCases ==
  [pre : PlainTexts, mid : {<<"m", "i", "d">>}, post : {<<"p", "o", "s", "t">>},
   name : {<<"t", "a", "g">>}, args : ScanTagArgs, expr : ScanExprs, pad : Paddings,
   tagTrimLeft : {FALSE}, tagTrimRight : BOOLEAN,
   objTrimLeft : {FALSE}, objTrimRight : {FALSE},
   written : WrittenDelims]

DelimsInit ==
  /\ ParserInit
  /\ LookupIdle
  /\ RenderIdle
  /\ ValueIdle
  /\ scanDelims \in DelimSets
  /\ scanCase \in DelimCases
  /\ scanSrc = FivePartSource(scanCase.written, scanCase)
  /\ scanOut = <<>>
  /\ scanPc = "called"

SpecDelims == DelimsInit /\ [][ScanNext]_vars

----------------------------------------------------------------------------
(* Scanning a run of tags and objects with no text between them *)

\* {% tag arg %}, {% tag %}, {{ expr }}, {{ expr arg }} of scannerCountTests.
PieceKinds == {"tag arg", "tag", "expr", "expr arg"}

Piece(d, kind) ==
  CASE kind = "tag arg" ->
         d[3] \o <<" ", "t", "a", "g", " ", "a", "r", "g", " ">> \o d[4]
    [] kind = "tag" -> d[3] \o <<" ", "t", "a", "g", " ">> \o d[4]
    [] kind = "expr" -> d[1] \o <<" ", "e", "x", "p", "r", " ">> \o d[2]
    [] kind = "expr arg" ->
         d[1] \o <<" ", "e", "x", "p", "r", " ", "a", "r", "g", " ">> \o d[2]

Runs == UNION {[1..n -> PieceKinds] : n \in 0..MaxRun}

RECURSIVE RunSource(_, _)
RunSource(d, run) ==
  IF run = <<>> THEN <<>> ELSE Piece(d, Head(run)) \o RunSource(d, Tail(run))

\* The text before the run: none, or text that holds no marker.
LeadTexts == {<<>>, <<"1", "2">>, <<"a", " ", "{", "\n">>}

CountCases == [text : LeadTexts, run : Runs]

CountInit ==
  /\ ParserInit
  /\ LookupIdle
  /\ RenderIdle
  /\ ValueIdle
  /\ scanDelims \in DelimSets
  /\ scanCase \in CountCases
  /\ scanSrc = scanCase.text \o RunSource(DelimsOrDefault(scanDelims), scanCase.run)
  /\ scanOut = <<>>
  /\ scanPc = "called"

SpecCount == CountInit /\ [][ScanNext]_vars

----------------------------------------------------------------------------
(* Scanning every short source over the characters of the default markers *)

MaxSource == 6

ScanAlphabet == {"{", "}", "%", "-", "a"}

Sources == UNION {[1..n -> ScanAlphabet] : n \in 0..MaxSource}

SourceInit ==
  /\ ParserInit
  /\ LookupIdle
  /\ RenderIdle
  /\ ValueIdle
  /\ scanDelims = <<>>
  /\ scanCase = NoCase
  /\ scanSrc \in Sources
  /\ scanOut = <<>>
  /\ scanPc = "called"

SpecSources == SourceInit /\ [][ScanNext]_vars

----------------------------------------------------------------------------
(* Lookups of variables and filters in an expressions.Config *)

\* What a call came to: a returned value, or a panic with an error value.
\* handled records that the mode's handler was called to produce it.
Returned(v) == [panics |-> FALSE, val |-> v, err |-> NoError, handled |-> FALSE]
Panicked(e) == [panics |-> TRUE, val |-> Nil, err |-> e, handled |-> FALSE]
ByHandler(r) == [r EXCEPT !.handled = TRUE]

\* UndefinedVariable(name).Error(): Sprintf("undefined variable %q", name)
UndefinedVariable(name) == <<"undefined variable ", Quote(name)>>

\* UndefinedFilter(name).Error()
UndefinedFilter(name) == <<"undefined filter ", Quote(name)>>

identityFilter == "identityFilter"

\* mode.OnUndefinedFilter(name)
OnUndefinedFilter(mode, name) ==
  ByHandler(IF mode = StrictMode THEN Panicked(UndefinedFilter(name))
            ELSE Returned(identityFilter))

\* mode.OnUndefinedVariable(name)
OnUndefinedVariable(mode, name) ==
  ByHandler(IF mode = StrictMode THEN Panicked(UndefinedVariable(name)) ELSE Returned(Nil))

\* The mode is not asked: a missing filter is the identity.
GetFilterUnchecked(c, name) ==
  IF name \in DOMAIN c.filters THEN Returned(c.filters[name])
  ELSE Returned(identityFilter)

\* c.GetFilter(name)
GetFilter(c, name) ==
  IF name \in DOMAIN c.filters THEN Returned(c.filters[name])
  ELSE OnUndefinedFilter(c.FilterErrorMode, name)

\* The handler's answer is fetched before the bindings are read.
GetVariableEager(c, b, name) ==
  IF OnUndefinedVariable(c.VariableErrorMode, name).panics \/ name \notin DOMAIN b
  THEN OnUndefinedVariable(c.VariableErrorMode, name)
  ELSE ByHandler(Returned(b[name]))

\* A key bound to nil is taken for a missing key.
GetVariableNilIsMissing(c, b, name) ==
  IF name \in DOMAIN b /\ b[name] # Nil THEN Returned(b[name])
  ELSE OnUndefinedVariable(c.VariableErrorMode, name)

\* c.GetVariable(bindings, name)
GetVariable(c, b, name) ==
  IF name \in DOMAIN b THEN Returned(b[name])
  ELSE OnUndefinedVariable(c.VariableErrorMode, name)

upcaseFilter == "upcaseFilter"

\* The value of filter applied to v.
Apply(filter, v) ==
  IF filter = identityFilter THEN v
  ELSE CASE v = "Introduction" -> "INTRODUCTION"
         [] v = "upper" -> "UPPER"
         [] v = Nil -> ""
         [] OTHER -> v

NoFilter == ""

\* The evaluation of the expression  var  or  var | filter : the variable is
\* looked up, then the filter; a panic of either is recovered and returned
\* as the error of the evaluation.
Evaluate(c, b, var, filter) ==
  LET v == GetVariable(c, b, var)
      f == GetFilter(c, filter)
  IN IF v.panics THEN [val |-> Nil, err |-> v.err]
     ELSE IF filter = NoFilter THEN [val |-> v.val, err |-> NoError]
     ELSE IF f.panics THEN [val |-> Nil, err |-> f.err]
     ELSE [val |-> Apply(f.val, v.val), err |-> NoError]

\* The maps with keys among keys and values among vals.
Maps(keys, vals) == UNION {[ks -> vals] : ks \in SUBSET keys}

VarNames == {"x", "page"}
Values == {Nil, "123", "Introduction"}
FilterNames == {"upcase", "undefined_filter"}

\* The configurations: NewConfig(), with or without a filter added, and
\* with either mode set for filters and for variables.
Configs ==
  [filters : Maps({"upcase"}, {upcaseFilter}),
   FilterErrorMode : {StrictMode, LaxMode},
   VariableErrorMode : {StrictMode, LaxMode}]

LookupInit ==
  /\ ParserInit
  /\ ScanIdle
  /\ RenderIdle
  /\ ValueIdle
  /\ cfg \in Configs
  /\ bindings \in Maps(VarNames, Values)
  /\ lookup = NoLookup

GetVariableCall(name) ==
  /\ lookup' = [op |-> "GetVariable", name |-> name, out |-> GetVariable(cfg, bindings, name)]
  /\ UNCHANGED <<parserVars, valueVars, scanVars, renderVars, cfg, bindings>>

GetFilterCall(name) ==
  /\ lookup' = [op |-> "GetFilter", name |-> name, out |-> GetFilter(cfg, name)]
  /\ UNCHANGED <<parserVars, valueVars, scanVars, renderVars, cfg, bindings>>

EvaluateCall(var, filter) ==
  /\ lookup' = [op |-> "Evaluate", var |-> var, filter |-> filter,
                out |-> Evaluate(cfg, bindings, var, filter)]
  /\ UNCHANGED <<parserVars, valueVars, scanVars, renderVars, cfg, bindings>>

LookupNext ==
  \/ \E name \in VarNames : GetVariableCall(name)
  \/ \E name \in FilterNames : GetFilterCall(name)
  \/ \E var \in VarNames, filter \in FilterNames \cup {NoFilter} : EvaluateCall(var, filter)

SpecLookup == LookupInit /\ [][LookupNext]_vars

----------------------------------------------------------------------------
(* The counter tags: increment and decrement *)

increment == "increment"
decrement == "decrement"

\* The operation is applied to the default on the first use as well.
defaultValueOperated(c) == IF c = increment THEN 1 ELSE -2

\* c.defaultValue()
defaultValue(c) == IF c = increment THEN 0 ELSE -1

\* c.operation(i)
operation(c, i) == IF c = increment THEN i + 1 ELSE i - 1

\* m with key k set to v.
Put(m, k, v) == [x \in DOMAIN m \cup {k} |-> IF x = k THEN v ELSE m[x]]

\* A value of type map[string]int held in an interface{}.
MapStringInt(m) == [type |-> "map[string]int", m |-> m]

\* ctx.GetState(key, factory): the value under key in the state mapping of
\* the render, made by factory and stored under key when there is none.
GetState(st, key, made) ==
  IF key \in DOMAIN st THEN [state |-> st, val |-> st[key]]
  ELSE [state |-> Put(st, key, made), val |-> made]

Digits == <<"0", "1", "2", "3", "4", "5", "6", "7", "8", "9">>

RECURSIVE NatStr(_)
NatStr(n) ==
  IF n < 10 THEN Digits[n + 1] ELSE NatStr(n \div 10) \o Digits[(n % 10) + 1]

\* strconv.Itoa(i)
Itoa(i) == IF i < 0 THEN "-" \o NatStr(-i) ELSE NatStr(i)

\* counterTag(w, ctx, c): the state mapping it leaves, what it writes to w
\* and the error it returns.
counterTag(st, argStr, c) ==
  LET got == GetState(st, "counters", MapStringInt(EmptyMap))
      counts == got.val.m
      count == IF argStr \in DOMAIN counts THEN operation(c, counts[argStr])
               ELSE defaultValue(c)
  IN IF got.val.type # "map[string]int"
     THEN [state |-> got.state, written |-> "",
           err |-> <<"counters state is not of type map[string]int">>]
     ELSE [state |-> Put(got.state, "counters", MapStringInt(Put(counts, argStr, count))),
           written |-> Itoa(count), err |-> NoError]

----------------------------------------------------------------------------
(* Rendering a Template: Render, RenderWithState and the nodes they run *)

\* {% increment abc %}, {% decrement abc %}, ...
CounterNode(c, arg) == [tag |-> c, args |-> arg, variable |-> "", var |-> "", filter |-> ""]

\* {% assign av = x | undefined_filter %}
AssignNode ==
  [tag |-> "assign", args |-> "av = x | undefined_filter",
   variable |-> "av", var |-> "x", filter |-> "undefined_filter"]

CounterNodes ==
  {CounterNode(increment, "abc"), CounterNode(increment, "def"),
   CounterNode(decrement, "abc")}

\* The templates: every sequence of up to MaxNodes of the nodes given.
TemplatesOf(ns) == UNION {[1..n -> ns] : n \in 1..MaxNodes}

\* tagTestBindings
TestBindings == [k \in {"x"} |-> "123"]

\* The function assignTag returns: the value is evaluated, an error of the
\* evaluation is returned, and otherwise the variable is set.
assignTag(node, c, vs) ==
  LET ev == Evaluate(c, vs, node.var, node.filter)
  IN IF ev.err # NoError THEN [vars |-> vs, err |-> ev.err]
     ELSE [vars |-> Put(vs, node.variable, ev.val), err |-> NoError]

\* The render of one node: the state mapping and the variables it leaves,
\* what it writes and the error it returns.
RenderNode(node, c, st, vs) ==
  IF node.tag = "assign"
  THEN [state |-> st, vars |-> assignTag(node, c, vs).vars, written |-> "",
        err |-> assignTag(node, c, vs).err]
  ELSE [state |-> counterTag(st, node.args, node.tag).state, vars |-> vs,
        written |-> counterTag(st, node.args, node.tag).written,
        err |-> counterTag(st, node.args, node.tag).err]

NoReturn == [isNil |-> TRUE, bytes |-> "", err |-> NoError]

\* A call of RenderWithState(vars, state) that has rendered nothing yet:
\* buf := new(bytes.Buffer).
NewCall(entry, s) ==
  [entry |-> entry, state |-> s, vars |-> bindings, pos |-> 1, buf |-> "",
   status |-> "running", err |-> NoError, ret |-> NoReturn]

\* A state mapping made for one call, empty: map[string]interface{}{}
FreshState(by) == [by |-> by, m |-> EmptyMap]

\* Render hands RenderWithState the state mapping of the first call again.
RenderSharedState ==
  /\ Len(calls) < MaxCalls
  /\ states' = IF states = <<>> THEN <<FreshState("Render")>> ELSE states
  /\ calls' = Append(calls, NewCall("Render", 1))
  /\ UNCHANGED <<parserVars, valueVars, scanVars, lookupVars, template, created>>

\* t.Render(vars): RenderWithState with a new, empty state mapping.
Render ==
  /\ Len(calls) < MaxCalls
  /\ states' = Append(states, FreshState("Render"))
  /\ calls' = Append(calls, NewCall("Render", Len(states) + 1))
  /\ UNCHANGED <<parserVars, valueVars, scanVars, lookupVars, template, created>>

\* t.RenderString(b): RenderStringWithState with a new, empty state mapping.
RenderString ==
  /\ Len(calls) < MaxCalls
  /\ states' = Append(states, FreshState("RenderString"))
  /\ calls' = Append(calls, NewCall("RenderString", Len(states) + 1))
  /\ UNCHANGED <<parserVars, valueVars, scanVars, lookupVars, template, created>>

\* RenderWithState is handed a copy of the caller's state mapping.
RenderWithCopiedState(s) ==
  /\ Len(calls) < MaxCalls
  /\ s \in 1..Len(states)
  /\ states[s].by = "caller"
  /\ \A c \in 1..Len(calls) : calls[c].state = s => calls[c].status = "returned"
  /\ states' = Append(states, states[s])
  /\ calls' = Append(calls, NewCall("RenderWithState", Len(states) + 1))
  /\ UNCHANGED <<parserVars, valueVars, scanVars, lookupVars, template, created>>

\* t.RenderWithState(vars, state), state a mapping the caller made before
\* and that no render still running was given.
RenderWithState(s) ==
  /\ Len(calls) < MaxCalls
  /\ s \in 1..Len(states)
  /\ states[s].by = "caller"
  /\ \A c \in 1..Len(calls) : calls[c].state = s => calls[c].status = "returned"
  /\ calls' = Append(calls, NewCall("RenderWithState", s))
  /\ UNCHANGED <<parserVars, valueVars, scanVars, lookupVars, template, states, created>>

\* t.RenderWithState(vars, state), state a new, empty mapping of the caller.
RenderWithNewState ==
  /\ Len(calls) < MaxCalls
  /\ states' = Append(states, FreshState("caller"))
  /\ calls' = Append(calls, NewCall("RenderWithState", Len(states) + 1))
  /\ UNCHANGED <<parserVars, valueVars, scanVars, lookupVars, template, created>>

\* The render of call c runs its next node; an error ends the render.
Step(c) ==
  /\ c \in 1..Len(calls)
  /\ calls[c].status = "running"
  /\ calls[c].pos <= Len(template)
  /\ LET call == calls[c]
         r == RenderNode(template[call.pos], cfg, states[call.state].m, call.vars)
     IN /\ states' = [states EXCEPT ![call.state].m = r.state]
        /\ calls' =
             [calls EXCEPT ![c] =
               IF r.err # NoError
               THEN [call EXCEPT !.status = "failed", !.err = r.err]
               ELSE [call EXCEPT !.pos = call.pos + 1, !.buf = call.buf \o r.written,
                                 !.vars = r.vars]]
  /\ UNCHANGED <<parserVars, valueVars, scanVars, lookupVars, template, created>>

\* RenderWithState: if err != nil { return nil, err }; return buf.Bytes(), nil
\* RenderStringWithState: if err != nil { return "", err }; return string(bs), nil
ReturnOf(call) ==
  IF call.status = "failed"
  THEN [isNil |-> call.entry # "RenderString", bytes |-> "", err |-> call.err]
  ELSE [isNil |-> FALSE, bytes |-> call.buf, err |-> NoError]

\* RenderWithState returns, the render done or failed.
Return(c) ==
  /\ c \in 1..Len(calls)
  /\ \/ calls[c].status = "failed"
     \/ calls[c].status = "running" /\ calls[c].pos > Len(template)
  /\ calls' = [calls EXCEPT ![c] = [calls[c] EXCEPT !.status = "returned",
                                                      !.ret = ReturnOf(calls[c])]]
  /\ UNCHANGED <<parserVars, valueVars, scanVars, lookupVars, template, states, created>>

\* No render is running.
Quiet == \A c \in 1..Len(calls) : calls[c].status = "returned"

\* The template's configuration: NewConfig(), the filter mode either way.
RenderConfigs == {c \in Configs : c.filters = EmptyMap /\ c.VariableErrorMode = LaxMode}

RenderInit ==
  /\ ParserInit
  /\ ScanIdle
  /\ ValueIdle
  /\ cfg \in RenderConfigs
  /\ bindings = TestBindings
  /\ lookup = NoLookup
  /\ template \in TemplatesOf(CounterNodes \cup {AssignNode})
  /\ states = <<>>
  /\ calls = <<>>
  /\ created = NotCreated

\* One render after the other.
RenderNext ==
  \/ Quiet /\ Render
  \/ Quiet /\ RenderString
  \/ Quiet /\ RenderWithNewState
  \/ \E s \in 1..MaxCalls : Quiet /\ RenderWithState(s)
  \/ \E c \in 1..MaxCalls : Step(c)
  \/ \E c \in 1..MaxCalls : Return(c)

SpecRender == RenderInit /\ [][RenderNext]_vars

ConcurrentInit ==
  /\ ParserInit
  /\ ScanIdle
  /\ ValueIdle
  /\ cfg = NewConfig
  /\ bindings = TestBindings
  /\ lookup = NoLookup
  /\ template \in TemplatesOf(CounterNodes)
  /\ states = <<>>
  /\ calls = <<>>
  /\ created = NotCreated

\* Render calls that run at the same time, their tag executions interleaved.
ConcurrentNext ==
  \/ Render
  \/ \E c \in 1..MaxCalls : Step(c)
  \/ \E c \in 1..MaxCalls : Return(c)

SpecConcurrent == ConcurrentInit /\ [][ConcurrentNext]_vars

----------------------------------------------------------------------------
(* Go values, as package values sees them.  A string is a sequence of      *)
(* one-character strings and a float is the fraction n/d.  The wide        *)
(* integer types are modelled on the values that fit them.                 *)

GoValue(type, b, n, d, s) == [type |-> type, b |-> b, n |-> n, d |-> d, s |-> s]

GoNil == GoValue("nil", FALSE, 0, 1, <<>>)
GoBool(b) == GoValue("bool", b, 0, 1, <<>>)
GoInt(type, n) == GoValue(type, FALSE, n, 1, <<>>)
GoFloat(type, n, d) == GoValue(type, FALSE, n, d, <<>>)
GoString(s) == GoValue("string", FALSE, 0, 1, s)
JsonNumber(s) == GoValue("json.Number", FALSE, 0, 1, s)
EmptySlice == GoValue("[]interface {}", FALSE, 0, 1, <<>>)

\* type redConvertible struct{}, a value with a ToLiquid method
RedConvertible == GoValue("redConvertible", FALSE, 0, 1, <<>>)

\* func (c redConvertible) ToLiquid() interface{} { return "red" }
ToLiquid(value) ==
  IF value.type = "redConvertible" THEN GoString(<<"r", "e", "d">>) ELSE value

BoolType == "bool"
NumberType == "values.Number"
SignedTypes == {"int", "int8", "int16", "int32", "int64"}
UnsignedTypes == {"uint", "uint8", "uint16", "uint32", "uint64"}
IntTypes == SignedTypes \cup UnsignedTypes
FloatTypes == {"float32", "float64"}

\* The number of bits of an integer type.
Width(t) ==
  CASE t \in {"int8", "uint8"} -> 8
    [] t \in {"int16", "uint16"} -> 16
    [] t \in {"int32", "uint32"} -> 32
    [] OTHER -> 64

\* A conversion that stops at the ends of the type's range.
Saturated(v, t) ==
  IF Width(t) > 16
  THEN v
  ELSE LET lo == IF t \in SignedTypes THEN -(2 ^ (Width(t) - 1)) ELSE 0
           hi == IF t \in SignedTypes THEN 2 ^ (Width(t) - 1) - 1 ELSE 2 ^ Width(t) - 1
       IN IF v < lo THEN lo ELSE IF v > hi THEN hi ELSE v

\* A Go integer conversion T(v): the low bits of v, read as a T.
Truncated(v, t) ==
  IF Width(t) > 16
  THEN v
  ELSE LET m == v % (2 ^ Width(t))
       IN IF t \in SignedTypes /\ m >= 2 ^ (Width(t) - 1) THEN m - 2 ^ Width(t) ELSE m

\* Whether a value fits its type: what a Go value of that type can hold.
Fits(v, t) ==
  IF Width(t) > 16
  THEN t \in SignedTypes \/ v >= 0
  ELSE Truncated(v, t) = v

RECURSIVE Gcd(_, _)
Gcd(a, b) == IF b = 0 THEN a ELSE Gcd(b, a % b)

Abs(i) == IF i < 0 THEN -i ELSE i

\* The fraction n/d in lowest terms, d positive.
Fraction(n, d) ==
  LET g == Gcd(Abs(n), Abs(d))
      sign == IF d < 0 THEN -1 ELSE 1
  IN [n |-> sign * (n \div g), d |-> sign * (d \div g)]

\* int64(f) for a float f: the fraction with its fractional part dropped.
FloatToInt(n, d) == IF n >= 0 THEN n \div d ELSE -((-n) \div d)

IsDigit(c) == \E k \in 1..10 : Digits[k] = c

DigitValue(c) == (CHOOSE k \in 1..10 : Digits[k] = c) - 1

AllDigits(s) == s # <<>> /\ \A k \in 1..Len(s) : IsDigit(s[k])

RECURSIVE DigitsValue(_)
DigitsValue(s) ==
  IF s = <<>> THEN 0
  ELSE 10 * DigitsValue(SubSeq(s, 1, Len(s) - 1)) + DigitValue(s[Len(s)])

HasSign(s) == s # <<>> /\ s[1] \in {"+", "-"}

Unsigned(s) == IF HasSign(s) THEN Tail(s) ELSE s

SignOf(s) == IF s # <<>> /\ s[1] = "-" THEN -1 ELSE 1

\* strconv.ParseInt(s, 10, 64): an optional sign, then decimal digits only
ParseInt(s) ==
  IF AllDigits(Unsigned(s))
  THEN [ok |-> TRUE, v |-> SignOf(s) * DigitsValue(Unsigned(s))]
  ELSE [ok |-> FALSE, v |-> 0]

DotAt(s) == IF \E k \in 1..Len(s) : s[k] = "." 
            THEN CHOOSE k \in 1..Len(s) : s[k] = "." /\ \A j \in 1..(k - 1) : s[j] # "."
            ELSE 0

\* strconv.ParseFloat(s, 64) on decimal notation: sign, digits, ".", digits
ParseFloat(s) ==
  LET u == Unsigned(s)
      dot == DotAt(u)
      whole == IF dot = 0 THEN u ELSE SubSeq(u, 1, dot - 1)
      frac == IF dot = 0 THEN <<>> ELSE SubSeq(u, dot + 1, Len(u))
  IN IF /\ whole \o frac # <<>>
        /\ \A k \in 1..Len(whole \o frac) : IsDigit((whole \o frac)[k])
     THEN [ok |-> TRUE,
           v |-> Fraction(SignOf(s) * DigitsValue(whole \o frac), 10 ^ Len(frac))]
     ELSE [ok |-> FALSE, v |-> Fraction(0, 1)]

----------------------------------------------------------------------------
(* values.Convert and the conversions under it *)

NilError == [text |-> "", modifier |-> "", T |-> "", typ |-> ""]

\* fmt.Errorf(text)
Errorf(text) == [text |-> text, modifier |-> "", T |-> "", typ |-> ""]

\* typeErrorf("can't convert %s%T(%v) to type %s", modifier, value, value, typ)
conversionError(modifier, value, typ) ==
  [text |-> "can't convert", modifier |-> modifier, T |-> value.type, typ |-> typ]

convertValueToInt(value, typ) ==
  CASE value.type = "bool" ->
         [v |-> IF value.b THEN 1 ELSE 0, err |-> NilError]
    [] value.type \in {"string", "json.Number"} ->
         IF ParseInt(value.s).ok
         THEN [v |-> ParseInt(value.s).v, err |-> NilError]
         ELSE [v |-> 0, err |-> conversionError("", value, typ)]
    [] OTHER -> [v |-> 0, err |-> conversionError("", value, typ)]

convertValueToFloat(value, typ) ==
  CASE value.type \in {"string", "json.Number"} ->
         IF ParseFloat(value.s).ok
         THEN [v |-> ParseFloat(value.s).v, err |-> NilError]
         ELSE [v |-> Fraction(0, 1), err |-> conversionError("", value, typ)]
    [] OTHER -> [v |-> Fraction(0, 1), err |-> conversionError("", value, typ)]

\* type Number struct { Value interface{}; IsFloat bool }
Number(n, d, isFloat) == GoValue(NumberType, isFloat, n, d, <<>>)

\* func (n Number) AsInt64() int64
AsInt64(num) == IF num.b THEN FloatToInt(num.n, num.d) ELSE num.n

\* func (n Number) AsFloat64() float64
AsFloat64(num) == Fraction(num.n, num.d)

\* The cases of the type switch in convertValueToNumber that make an integer.
NumberIntCases == {"int", "int16", "int32", "int64", "uint", "uint16", "uint32", "uint64"}

convertValueToNumber(value, typ) ==
  CASE value = GoNil -> Number(0, 1, FALSE)
    [] value.type \in NumberIntCases -> Number(value.n, 1, FALSE)
    [] value.type \in FloatTypes -> Number(value.n, value.d, TRUE)
    [] convertValueToInt(value, typ).err = NilError ->
         Number(convertValueToInt(value, typ).v, 1, FALSE)
    [] convertValueToFloat(value, typ).err = NilError ->
         Number(convertValueToFloat(value, typ).v.n, convertValueToFloat(value, typ).v.d, TRUE)
    [] OTHER -> Number(0, 1, FALSE)

NumericTypes == IntTypes \cup FloatTypes

\* rv.Type().ConvertibleTo(typ), for the target types below
ConvertibleTo(from, typ) ==
  \/ from \in NumericTypes /\ typ \in NumericTypes
  \/ from = typ

\* rv.Convert(typ).Interface(), between the numeric types and from a type to itself
RvConvert(value, typ) ==
  CASE value.type = typ -> value
    [] value.type \in IntTypes /\ typ \in IntTypes -> GoInt(typ, Truncated(value.n, typ))
    [] value.type \in IntTypes /\ typ \in FloatTypes -> GoFloat(typ, value.n, 1)
    [] value.type \in FloatTypes /\ typ \in IntTypes ->
         GoInt(typ, Truncated(FloatToInt(value.n, value.d), typ))
    [] OTHER -> GoFloat(typ, value.n, value.d)

\* The boolean case with Go's zero values counted as false.
TruthyNonZero(value) ==
  ~(value = GoNil \/ value = GoBool(FALSE) \/ (value.n = 0 /\ value.s = <<>>))

\* !(value == nil || value == false)
Truthy(value) == ~(value = GoNil \/ value = GoBool(FALSE))

Returns(val, err) == [done |-> TRUE, val |-> val, err |-> err]

\* The target types a conversion is asked for here.
ConvertTypes == {BoolType, NumberType} \cup IntTypes \cup FloatTypes

\* func Convert(value interface{}, typ reflect.Type) (interface{}, error)
Convert(given, typ) ==
  LET value == ToLiquid(given) IN
  CASE typ # "string" /\ value # GoNil /\ ConvertibleTo(value.type, typ) ->
         Returns(RvConvert(value, typ), NilError)
    [] typ = NumberType -> Returns(convertValueToNumber(value, typ), NilError)
    [] typ = BoolType -> Returns(GoBool(Truthy(value)), NilError)
    [] typ \in IntTypes ->
         Returns(GoInt(typ, Truncated(convertValueToInt(value, typ).v, typ)),
                 convertValueToInt(value, typ).err)
    [] typ \in FloatTypes ->
         Returns(GoFloat(typ, convertValueToFloat(value, typ).v.n,
                         convertValueToFloat(value, typ).v.d),
                 convertValueToFloat(value, typ).err)
    [] OTHER -> Returns(GoNil, conversionError("", value, typ))

----------------------------------------------------------------------------
(* Calls of Convert, one per value and target type *)

IntSamples == {-129, -1, 0, 2, 127, 300}

Strings ==
  {<<>>, <<"2">>, <<"3", "0", "0">>, <<"-", "1">>, <<"+", "7">>, <<"2", ".", "5">>,
   <<"s">>, <<" ", "5">>, <<"-", "1", "2", "9">>, <<"4", "0", "0", "0", "0">>}

NumberStrings == {<<"2">>, <<"3", "0", "0">>, <<"-", "1">>, <<"2", ".", "5">>}

ConvertValues ==
  {GoNil, GoBool(TRUE), GoBool(FALSE), EmptySlice, RedConvertible}
    \cup {GoInt(p[1], p[2]) : p \in {q \in IntTypes \X IntSamples : Fits(q[2], q[1])}}
    \cup {GoFloat("float64", 5, 2), GoFloat("float64", 0, 1), GoFloat("float64", -5, 2),
          GoFloat("float32", 5, 2)}
    \cup {GoString(s) : s \in Strings}
    \cup {JsonNumber(s) : s \in NumberStrings}

\* The integer a conversion to an integer type starts from.
Carried(value) ==
  CASE value.type \in IntTypes -> value.n
    [] value.type \in FloatTypes -> FloatToInt(value.n, value.d)
    [] OTHER -> convertValueToInt(value, "int64").v

ConvertCalls ==
  {c \in [fn : {"Convert"}, value : ConvertValues, typ : ConvertTypes] :
     Fits(Carried(ToLiquid(c.value)), c.typ) \/ Width(c.typ) <= 16 \/ c.typ \notin IntTypes}

ConvertInit ==
  /\ ParserInit
  /\ ScanIdle
  /\ LookupIdle
  /\ RenderIdle
  /\ valueCall \in ConvertCalls
  /\ valueRet = NotReturned

ConvertCall ==
  /\ valueCall.fn = "Convert"
  /\ ~valueRet.done
  /\ valueRet' = Convert(valueCall.value, valueCall.typ)
  /\ UNCHANGED <<parserVars, scanVars, lookupVars, renderVars, valueCall>>

ConvertNext == ConvertCall

SpecConvert == ConvertInit /\ [][ConvertNext]_vars

----------------------------------------------------------------------------
(* The standard filters concat, plus and divided_by.  An array is a        *)
(* sequence of elements; Nil is the nil interface value.                   *)

\* make([]interface{}, n)
Make(n) == [k \in 1..n |-> Nil]

\* copy(dst, src)
Copy(dst, src) == [k \in 1..Len(dst) |-> IF k <= Len(src) THEN src[k] ELSE dst[k]]

\* fd.AddFilter("concat", func(a, b []interface{}) []interface{} {...})
concat(a, b) == Returns(Copy(Make(Len(a) + Len(b)), a) \o b, NilError)

\* Integer division rounding down.
FloorQuot(x, y) == IF y > 0 THEN x \div y ELSE (-x) \div (-y)

\* Go's x / y on integers: the quotient truncated toward zero
Quot(x, y) ==
  IF (x >= 0) = (y > 0) THEN Abs(x) \div Abs(y) ELSE -(Abs(x) \div Abs(y))

\* Go's a / b on floats; a zero divisor gives +Inf, -Inf or NaN, written n/0
FloatQuot(a, b) ==
  IF b.n = 0
  THEN [n |-> IF a.n > 0 THEN 1 ELSE IF a.n < 0 THEN -1 ELSE 0, d |-> 0]
  ELSE Fraction(a.n * b.d, a.d * b.n)

\* fd.AddFilter("divided_by", func(a float64, b values.Number) (interface{}, error) {...})
divided_by(a, b) ==
  IF b.b
  THEN Returns(GoFloat("float64", FloatQuot(a, AsFloat64(b)).n, FloatQuot(a, AsFloat64(b)).d),
               NilError)
  ELSE IF AsInt64(b) = 0
       THEN Returns(GoNil, Errorf("divided by 0"))
       ELSE Returns(GoInt("int64", Quot(FloatToInt(a.n, a.d), AsInt64(b))), NilError)

\* func (op commonNumberOperation) Call(lhs, rhs values.Number) interface{}, for plus
plus(lhs, rhs) ==
  IF lhs.b \/ rhs.b
  THEN LET sum == Fraction(lhs.n * rhs.d + rhs.n * lhs.d, lhs.d * rhs.d)
       IN Returns(GoFloat("float64", sum.n, sum.d), NilError)
  ELSE Returns(GoInt("int64", AsInt64(lhs) + AsInt64(rhs)), NilError)

\* A filter is called with its arguments converted to its parameter types;
\* an argument that does not convert fails the call.
ApplyDividedBy(x, y) ==
  IF Convert(x, "float64").err # NilError
  THEN Returns(GoNil, Convert(x, "float64").err)
  ELSE divided_by(Convert(x, "float64").val, Convert(y, NumberType).val)

ApplyPlus(x, y) == plus(Convert(x, NumberType).val, Convert(y, NumberType).val)

----------------------------------------------------------------------------
(* Calls of the filters *)

MaxArray == 3

Elements == {"1", "2", "one"}

Arrays == UNION {[1..n -> Elements] : n \in 0..MaxArray}

Dividends ==
  {GoInt("int", 16), GoInt("int", 5), GoInt("int", 20), GoInt("int", -7),
   GoString(<<"2", "0">>), GoFloat("float64", 5, 2), GoFloat("float64", -5, 2),
   GoString(<<"s">>)}

Divisors ==
  {GoInt("int", 4), GoInt("int", 3), GoInt("int", 7), GoInt("int", 0), GoInt("int", -2),
   GoInt("int8", 4), GoInt("uint64", 7), GoString(<<"7">>), GoString(<<"s">>), GoNil,
   GoFloat("float64", 7, 1), GoFloat("float64", 0, 1), GoFloat("float64", 5, 2),
   GoString(<<"2", ".", "5">>)}

IntegerValues == {v \in ConvertValues : v.type \in IntTypes}

FilterCalls ==
  [fn : {"concat"}, a : Arrays, b : Arrays]
    \cup [fn : {"divided_by"}, x : Dividends, y : Divisors]
    \cup [fn : {"plus"}, x : IntegerValues, y : {GoInt("int", 0), GoInt("int", 2)}]

FiltersInit ==
  /\ ParserInit
  /\ ScanIdle
  /\ LookupIdle
  /\ RenderIdle
  /\ valueCall \in FilterCalls
  /\ valueRet = NotReturned

ConcatCall ==
  /\ valueCall.fn = "concat"
  /\ ~valueRet.done
  /\ valueRet' = concat(valueCall.a, valueCall.b)
  /\ UNCHANGED <<parserVars, scanVars, lookupVars, renderVars, valueCall>>

DividedByCall ==
  /\ valueCall.fn = "divided_by"
  /\ ~valueRet.done
  /\ valueRet' = ApplyDividedBy(valueCall.x, valueCall.y)
  /\ UNCHANGED <<parserVars, scanVars, lookupVars, renderVars, valueCall>>

PlusCall ==
  /\ valueCall.fn = "plus"
  /\ ~valueRet.done
  /\ valueRet' = ApplyPlus(valueCall.x, valueCall.y)
  /\ UNCHANGED <<parserVars, scanVars, lookupVars, renderVars, valueCall>>

FiltersNext ==
  \/ ConcatCall
  \/ DividedByCall
  \/ PlusCall

SpecFilters == FiltersInit /\ [][FiltersNext]_vars

----------------------------------------------------------------------------
(* The token sequence read on its own terms: which tokens lie in comment   *)
(* or raw content, and which block-start tags are still waiting for their  *)
(* block-end.  The claims below compare the parser against this reading.   *)

Front(q) == SubSeq(q, 1, Len(q) - 1)
Last(q) == q[Len(q)]

IsStartTag(tok) == tok.Type = TagTokenType /\ tok.Name \in StandardBlocks
IsEndTag(tok) ==
  tok.Type = TagTokenType /\ \E b \in StandardBlocks : tok.Name = EndName(b)
IsClauseTag(tok) == tok.Type = TagTokenType /\ tok.Name \in ClauseNames

\* mode: "normal", "comment" or "raw" after toks; open: the indexes of the
\* block-start tags not yet closed, outermost first.
RECURSIVE Reading(_)
Reading(toks) ==
  IF toks = <<>> THEN [mode |-> "normal", open |-> <<>>]
  ELSE LET prev == Reading(Front(toks))
           t == Last(toks)
       IN IF prev.mode = "comment"
          THEN [prev EXCEPT !.mode = IF IsTag(t, "endcomment") THEN "normal" ELSE @]
          ELSE IF prev.mode = "raw"
          THEN [prev EXCEPT !.mode = IF IsTag(t, "endraw") THEN "normal" ELSE @]
          ELSE IF IsTag(t, "comment") THEN [prev EXCEPT !.mode = "comment"]
          ELSE IF IsTag(t, "raw") THEN [prev EXCEPT !.mode = "raw"]
          ELSE IF IsStartTag(t) THEN [prev EXCEPT !.open = Append(@, Len(toks))]
          ELSE IF IsEndTag(t) /\ prev.open # <<>>
          THEN [prev EXCEPT !.open = Front(@)]
          ELSE prev

OpenBlocks == Reading(tokens).open

Contains(msg, piece) == piece \in Range(msg)

----------------------------------------------------------------------------
\* C1: when the parser reaches the end of a token sequence in which some
\* block-start tag is still waiting for its block-end, parseTokens returns
\* no tree and an error whose message contains "unterminated" and the
\* quoted name of an unclosed block.  (comment and raw switch the lexical
\* mode and open no block; their content opens none either.)
C1_UnterminatedBlock ==
  (pc = "done" /\ OpenBlocks # <<>>) =>
    /\ ret.ast = NilNode
    /\ Contains(ret.err, "unterminated ")
    /\ \E k \in 1..Len(OpenBlocks) : Contains(ret.err, Quote(tokens[OpenBlocks[k]].Name))

\* {% if x %}t with no {% endif %}: unterminated "if" block.
C1_Witness ==
  /\ pc = "done"
  /\ tokens = <<TagToken("if"), TextToken("t")>>
  /\ ret = [ast |-> NilNode, err |-> <<"unterminated ", "\"if\"", " block">>, at |-> 1]

----------------------------------------------------------------------------
\* The tags a clause or block-end tag t must be directly inside.
AllowedParents(t) ==
  IF IsClauseTag(t) THEN Range(ClauseParents(t.Name))
  ELSE {b \in StandardBlocks : t.Name = EndName(b)}

\* The name of the innermost block open after toks, NilSyntax when none.
EnclosingTag(toks) ==
  IF Reading(toks).open = <<>> THEN NilSyntax
  ELSE toks[Last(Reading(toks).open)].Name

\* Token n is a clause or block-end tag outside comment and raw content whose
\* immediately enclosing open block is none of its allowed parents.
Misplaced(n) ==
  /\ Reading(SubSeq(tokens, 1, n - 1)).mode = "normal"
  /\ IsClauseTag(tokens[n]) \/ IsEndTag(tokens[n])
  /\ EnclosingTag(SubSeq(tokens, 1, n - 1)) \notin AllowedParents(tokens[n])

\* C2: outside comment and raw content, a clause or block-end tag with no
\* open block, or directly inside a block that is not one of its parents,
\* ends the parse at that token with no tree and an error naming the tag,
\* every required parent tag and, when a block is open, the immediate
\* parent; no later token is consumed.
C2_ParentRequired ==
  \A n \in 1..Len(tokens) :
    Misplaced(n) =>
      LET parent == EnclosingTag(SubSeq(tokens, 1, n - 1))
          tail == SubSeq(ret.err, Len(ret.err) - 1, Len(ret.err))
      IN /\ n = Len(tokens)
         /\ pc = "aborted"
         /\ ret.ast = NilNode
         /\ ret.at = n
         /\ ret.err # NoError
         /\ ret.err[1] = tokens[n].Name
         /\ Contains(ret.err, " not inside ")
         /\ \A a \in AllowedParents(tokens[n]) : Contains(ret.err, a)
         /\ parent # NilSyntax => tail = <<"; immediate parent is ", parent>>
         /\ parent = NilSyntax => ~Contains(ret.err, "; immediate parent is ")

\* {% if x %}{% for a in b %}{% else %}: else directly inside for inside if.
C2_Witness ==
  /\ pc = "aborted"
  /\ tokens = <<TagToken("if"), TagToken("for"), TagToken("else")>>
  /\ ret.err = <<"else", " not inside ", "case", " or ", "if", " or ", "unless",
                 "; immediate parent is ", "for">>

----------------------------------------------------------------------------
(* Steps of the loop, as the claims speak of them *)

\* The step consumes a token; Consumed is that token.
Consumes == tokens' # tokens
Consumed == Last(tokens')

Normal == ~inComment /\ ~inRaw

\* C3: from a comment tag on, every token is discarded: no node is added,
\* the block stack, active block and insertion point stay as they were and
\* no error is returned, whatever the token; only a tag named endcomment
\* leaves comment mode, and it changes nothing else.
C3_CommentStep ==
  /\ (Consumes /\ Normal /\ IsTag(Consumed, "comment")) =>
        /\ inComment'
        /\ UNCHANGED <<nodes, ap, sd, bn, stack, rawTag, inRaw, pc, ret, compiled>>
  /\ (Consumes /\ inComment) =>
        /\ inComment' = ~IsTag(Consumed, "endcomment")
        /\ UNCHANGED <<nodes, ap, sd, bn, stack, rawTag, inRaw, pc, ret, compiled>>

C3_CommentDiscards ==
  /\ [](pc = "loop" => (inComment <=> Reading(tokens).mode = "comment"))
  /\ [][C3_CommentStep]_vars

\* {% if x %}{% comment %}{{ syntax error }}{% endcomment %}: back in the
\* Body of the if, with nothing added and no error.
C3_Witness ==
  /\ tokens = <<TagToken("if"), TagToken("comment"), ObjToken("syntax error"),
                TagToken("endcomment")>>
  /\ pc = "loop" /\ ~inComment
  /\ Len(nodes) = 2 /\ ap = 2 /\ bn = 2 /\ Len(stack) = 1

----------------------------------------------------------------------------
\* The Source strings of the tokens strictly between each raw tag and the
\* first endraw after it (or the end of toks), one list per raw tag.
RECURSIVE RawContents(_)
RawContents(toks) ==
  IF toks = <<>> THEN <<>>
  ELSE LET prev == RawContents(Front(toks))
           mode == Reading(Front(toks)).mode
           t == Last(toks)
       IN IF mode = "raw" /\ ~IsTag(t, "endraw")
          THEN [prev EXCEPT ![Len(prev)] = Append(@, t.Source)]
          ELSE IF mode = "normal" /\ IsTag(t, "raw") THEN Append(prev, <<>>)
          ELSE prev

\* The Raw nodes of the heap, in order of creation.
RawNodes == SelectSeq([i \in 1..Len(nodes) |-> i], LAMBDA i : nodes[i].kind = "Raw")

RECURSIVE Concat(_)
Concat(strs) == IF strs = <<>> THEN "" ELSE Head(strs) \o Concat(Tail(strs))

\* What rendering a Raw node writes: its slices, one after the other.
RenderRaw(n) == Concat(nodes[n].Slices)

C4_RawStep ==
  /\ (Consumes /\ Normal /\ IsTag(Consumed, "raw")) =>
        /\ Len(nodes') = Len(nodes) + 1
        /\ nodes'[Len(nodes')] = ASTRaw
        /\ nodes'[ap] = [nodes[ap] EXCEPT !.Body = Append(@, Len(nodes'))]
        /\ \A i \in 1..Len(nodes) : i # ap => nodes'[i] = nodes[i]
        /\ inRaw'
        /\ UNCHANGED <<ap, sd, bn, stack, inComment, pc, ret, compiled>>
  /\ (Consumes /\ ~inComment /\ inRaw) =>
        /\ Len(nodes') = Len(nodes)
        /\ \A i \in 1..Len(nodes) :
             nodes'[i] = [nodes[i] EXCEPT !.Slices = nodes'[i].Slices]
        /\ inRaw' = ~IsTag(Consumed, "endraw")
        /\ UNCHANGED <<ap, sd, bn, stack, rawTag, inComment, pc, ret, compiled>>

\* C4: a raw tag appends exactly one Raw node at the insertion point; the
\* node's slices are the Source strings, in order, of the tokens strictly
\* between the raw tag and the first endraw after it, so that rendering it
\* writes that text unchanged; none of those tokens adds a node, changes the
\* stack or returns an error.
C4_RawVerbatim ==
  /\ [](/\ Len(RawNodes) = Len(RawContents(tokens))
        /\ \A k \in 1..Len(RawNodes) :
             /\ nodes[RawNodes[k]].Slices = RawContents(tokens)[k]
             /\ RenderRaw(RawNodes[k]) = Concat(RawContents(tokens)[k]))
  /\ [][C4_RawStep]_vars

\* {% raw %}{% if x %}{% undefined_tag %}{% endraw %}
C4_Witness ==
  /\ tokens = <<TagToken("raw"), TagToken("if"), TagToken("undefined_tag"),
                TagToken("endraw")>>
  /\ pc = "loop" /\ ~inRaw /\ stack = <<>>
  /\ nodes[Root].Body = <<2>> /\ Len(nodes) = 2
  /\ nodes[2].kind = "Raw"
  /\ nodes[2].Slices = <<"{% if x %}", "{% undefined_tag %}">>
  /\ RenderRaw(2) = "{% if x %}{% undefined_tag %}"

----------------------------------------------------------------------------
\* The Block node made for token i, NilNode when there is none.
NodeOfToken(ns, i) ==
  IF \E n \in 1..Len(ns) : ns[n].tok = i
  THEN CHOOSE n \in 1..Len(ns) : ns[n].tok = i
  ELSE NilNode

\* The node of the innermost block open after toks, NilNode when none.
EnclosingBlock(ns, toks) ==
  IF Reading(toks).open = <<>> THEN NilNode
  ELSE NodeOfToken(ns, Last(Reading(toks).open))

\* A block-start tag the parser treats as one: not comment, not raw.
OpensBlock(tok) == IsStartTag(tok) /\ tok.Name \notin {"comment", "raw"}

C5_BlockStep ==
  /\ (Consumes /\ Normal /\ OpensBlock(Consumed)) =>
        /\ Len(nodes') = Len(nodes) + 1
        /\ nodes'[Len(nodes')].kind = "Block"
        /\ nodes'[Len(nodes')].tok = Len(tokens')
        /\ nodes'[Len(nodes')].Body = <<>>
        /\ nodes'[ap] = [nodes[ap] EXCEPT !.Body = Append(@, Len(nodes'))]
        /\ \A i \in 1..Len(nodes) : i # ap => nodes'[i] = nodes[i]
        /\ ap' = Len(nodes') /\ bn' = Len(nodes') /\ sd' = Consumed.Name
        /\ stack' = Append(stack, [syntax |-> sd, node |-> bn, ap |-> ap])
        /\ pc' = "loop"
  /\ (Consumes /\ Normal /\ IsEndTag(Consumed) /\ pc' = "loop") =>
        /\ nodes' = nodes
        /\ bn = NodeOfToken(nodes, Last(Reading(tokens).open))
        /\ nodes[ap'].Body # <<>> /\ Last(nodes[ap'].Body) = bn
        /\ bn' = EnclosingBlock(nodes, tokens')
        /\ sd' = EnclosingTag(tokens')
        /\ Len(stack') = Len(stack) - 1

\* C5: a block-start appends a new Block to the insertion point and makes
\* the Block's Body the insertion point; the matching block-end restores the
\* syntax, block and insertion point of before the block-start: the active
\* block and syntax are again those of the enclosing open block, and the
\* insertion point is the list whose last element is the Block just closed,
\* so that the next node becomes its next sibling.
C5_NestingRestored ==
  /\ [](pc = "loop" =>
         /\ Len(stack) = Len(OpenBlocks)
         /\ bn = EnclosingBlock(nodes, tokens)
         /\ sd = EnclosingTag(tokens))
  /\ [][C5_BlockStep]_vars

\* {% if x %}{% else %}{% for a in b %}{% endfor %}: after the endfor the
\* insertion point is the Body of the else clause, which ends with the for.
C5_Witness ==
  /\ tokens = <<TagToken("if"), TagToken("else"), TagToken("for"), TagToken("endfor")>>
  /\ pc = "loop"
  /\ nodes[2].Clauses = <<3>> /\ nodes[2].Body = <<>>
  /\ nodes[3].Body = <<4>> /\ nodes[4].kind = "Block"
  /\ ap = 3 /\ bn = 2 /\ sd = "if" /\ Len(stack) = 1

----------------------------------------------------------------------------
\* The clause list of a block's node, and the last clause in it.
LastClause(b) == Last(nodes[b].Clauses)

C6_ClauseStep ==
  /\ (Consumes /\ Normal /\ IsClauseTag(Consumed) /\ pc' = "loop") =>
        /\ bn # NilNode
        /\ Len(nodes') = Len(nodes) + 1
        /\ nodes'[Len(nodes')].kind = "Block"
        /\ nodes'[Len(nodes')].tok = Len(tokens')
        /\ nodes'[Len(nodes')].Body = <<>>
        /\ nodes'[bn] = [nodes[bn] EXCEPT !.Clauses = Append(@, Len(nodes'))]
        /\ \A i \in 1..Len(nodes) : i # bn => nodes'[i] = nodes[i]
        /\ ap' = Len(nodes')
        /\ UNCHANGED <<stack, bn, sd>>
  /\ (Consumes /\ Normal /\ bn # NilNode /\ nodes[bn].Clauses # <<>>) =>
        /\ nodes'[bn].Body = nodes[bn].Body
        /\ \A k \in 1..(Len(nodes[bn].Clauses) - 1) :
             nodes'[nodes[bn].Clauses[k]] = nodes[nodes[bn].Clauses[k]]
        /\ (Len(nodes') > Len(nodes) /\ ~IsClauseTag(Consumed)) =>
             nodes'[LastClause(bn)].Body = Append(nodes[LastClause(bn)].Body, Len(nodes'))

\* C6: an accepted clause tag appends one clause sub-block at the end of the
\* active block's Clauses, leaves the stack and the active block alone and
\* makes the clause's Body the insertion point; from then on, while that
\* block is the active one, new nodes go to the Body of its last clause and
\* never to the block's own Body or to an earlier clause.
C6_ClauseAppended ==
  /\ [](\A b \in 1..Len(nodes) : \A j, k \in 1..Len(nodes[b].Clauses) :
          j < k => nodes[nodes[b].Clauses[j]].tok < nodes[nodes[b].Clauses[k]].tok)
  /\ [][C6_ClauseStep]_vars

\* {% if x %}t{% else %}t: one text in the Body, one in the clause.
C6_Witness ==
  /\ tokens = <<TagToken("if"), TextToken("t"), TagToken("else"), TextToken("t")>>
  /\ pc = "loop"
  /\ nodes[2].Body = <<3>> /\ nodes[2].Clauses = <<4>>
  /\ nodes[4].Body = <<5>>
  /\ ap = 4 /\ bn = 2 /\ Len(stack) = 1

----------------------------------------------------------------------------
\* A depth-first walk: the node, its Body, then its Clauses in order.
RECURSIVE Walk(_), WalkAll(_)
Walk(n) ==
  (IF nodes[n].tok # 0 THEN <<n>> ELSE <<>>)
    \o WalkAll(nodes[n].Body) \o WalkAll(nodes[n].Clauses)
WalkAll(ids) == IF ids = <<>> THEN <<>> ELSE Walk(Head(ids)) \o WalkAll(Tail(ids))

\* The kind of node token n must produce, "" when it must produce none.
ExpectedKind(n) ==
  LET t == tokens[n]
  IN IF Reading(SubSeq(tokens, 1, n - 1)).mode # "normal" THEN ""
     ELSE IF t.Type = TextTokenType THEN "Text"
     ELSE IF t.Type = ObjTokenType THEN "Object"
     ELSE IF IsEndTag(t) \/ IsTag(t, "comment") \/ IsTag(t, "raw") THEN ""
     ELSE IF IsStartTag(t) \/ IsClauseTag(t) THEN "Block"
     ELSE "Tag"

\* The tokens that must produce a node, in token order.
NodeTokens ==
  SelectSeq([i \in 1..Len(tokens) |-> i], LAMBDA i : ExpectedKind(i) # "")

\* C7: after a successful parse, the depth-first walk of the tree meets
\* exactly one node for every text, object, plain tag, block-start and
\* clause token outside comment and raw content, of the matching kind and in
\* token order; block-end tokens and comment content have no node, nor have
\* the comment and raw tags themselves, which only switch the lexical mode.
C7_NodesInTokenOrder ==
  (pc = "done" /\ ret.ast # NilNode) =>
    LET w == Walk(ret.ast)
    IN /\ [k \in 1..Len(w) |-> nodes[w[k]].tok] = NodeTokens
       /\ \A k \in 1..Len(w) : nodes[w[k]].kind = ExpectedKind(nodes[w[k]].tok)
       /\ \A n \in 1..Len(nodes) : nodes[n].tok # 0 => \E k \in 1..Len(w) : w[k] = n

\* {% if x %}{% else %}{{ x }}{% endif %}
C7_Witness ==
  /\ tokens = <<TagToken("if"), TagToken("else"), ObjToken("x"), TagToken("endif")>>
  /\ pc = "done" /\ ret.ast = Root
  /\ nodes[2].Body = <<>> /\ nodes[2].Clauses = <<3>> /\ nodes[3].Body = <<4>>
  /\ Walk(Root) = <<2, 3, 4>>
  /\ NodeTokens = <<1, 2, 3>>

----------------------------------------------------------------------------
\* Token n is the place of a parse error: outside comment and raw content, an
\* object with a malformed expression or a misplaced clause or block-end.
Offending(n) ==
  \/ Misplaced(n)
  \/ /\ Reading(SubSeq(tokens, 1, n - 1)).mode = "normal"
     /\ tokens[n].Type = ObjTokenType
     /\ tokens[n].Args \in MalformedExprs

\* C8: parseTokens returns either (root, nil) or (nil, error), never an error
\* with a tree; a malformed expression or a parent violation ends the parse
\* at that token, the first such token of the input, and an input that ends
\* with a block open fails as well.
C8_NoPartialTree ==
  /\ pc \in {"aborted", "done"} => (ret.err # NoError <=> ret.ast = NilNode)
  /\ pc = "loop" => (ret.err = NoError /\ ret.ast = NilNode)
  /\ pc = "aborted" => (ret.err # NoError /\ ret.at = Len(tokens))
  /\ \A n \in 1..Len(tokens) :
       Offending(n) =>
         /\ n = Len(tokens) /\ pc = "aborted"
         /\ ret.ast = NilNode /\ ret.err # NoError /\ ret.at = n
  /\ (pc = "aborted") => Offending(Len(tokens))
  /\ (pc = "done" /\ OpenBlocks # <<>>) => (ret.ast = NilNode /\ ret.err # NoError)

\* {% if x %}t{{ syntax error }}: two nodes were built, none is returned.
C8_Witness ==
  /\ tokens = <<TagToken("if"), TextToken("t"), ObjToken("syntax error")>>
  /\ pc = "aborted"
  /\ Len(nodes) = 3
  /\ ret = [ast |-> NilNode, err |-> <<"syntax error">>, at |-> 3]

----------------------------------------------------------------------------
\* A tag whose name the grammar does not know: no block, clause or block-end.
IsPlainTag(tok) ==
  tok.Type = TagTokenType /\ ~IsStartTag(tok) /\ ~IsEndTag(tok) /\ ~IsClauseTag(tok)

\* The nodes of the returned tree that are tags without a compiler.
UndefinedTagNodes ==
  {n \in Range(Walk(Root)) :
     nodes[n].kind = "Tag" /\ tokens[nodes[n].tok].Name \notin StandardTags}

C9_PlainTagStep ==
  (Consumes /\ Normal /\ IsPlainTag(Consumed)) =>
    /\ Len(nodes') = Len(nodes) + 1
    /\ nodes'[Len(nodes')] = ASTTag(Len(tokens'))
    /\ nodes'[ap] = [nodes[ap] EXCEPT !.Body = Append(@, Len(nodes'))]
    /\ \A i \in 1..Len(nodes) : i # ap => nodes'[i] = nodes[i]
    /\ pc' = "loop"
    /\ UNCHANGED <<ap, sd, bn, stack, ret>>

\* C9: outside comment and raw content, a tag the grammar does not know as
\* a block is never a parse error: it becomes a Tag node at the insertion
\* point, at top level or inside a block or clause, and the stack stays as
\* it is.  A tag without a compiler
\* is reported when the parsed tree is compiled, as "undefined tag", also
\* when it lies inside a block, and a tree without such a tag is not.
C9_UndefinedTagAtCompile ==
  /\ [](~Contains(ret.err, "undefined tag "))
  /\ []((compiled.called /\ ret.ast # NilNode) =>
          /\ UndefinedTagNodes # {} <=> Contains(compiled.err, "undefined tag ")
          /\ UndefinedTagNodes # {} =>
                /\ compiled.root = NilNode
                /\ \E n \in UndefinedTagNodes :
                     Contains(compiled.err, Quote(tokens[nodes[n].tok].Name)))
  /\ [][C9_PlainTagStep]_vars

\* {% if x %}{% undefined_tag %}{% endif %} parses and does not compile.
C9_Witness ==
  /\ tokens = <<TagToken("if"), TagToken("undefined_tag"), TagToken("endif")>>
  /\ ret = [ast |-> Root, err |-> NoError, at |-> 0]
  /\ nodes[2].Body = <<3>> /\ nodes[3].kind = "Tag"
  /\ compiled = [called |-> TRUE, root |-> NilNode,
                 err |-> <<"undefined tag ", "\"undefined_tag\"">>]

----------------------------------------------------------------------------
\* C10: the source pre + tag + mid + object + post, with pre, mid and post
\* non-empty text free of markers and the tag and object well-formed, scans
\* to exactly five tokens: the text pre, the tag with its name and its
\* trimmed arguments, the text mid, the object with its trimmed expression,
\* the text post; with the default markers and with each other set.
C10_FiveTokens ==
  scanPc = "scanned" =>
    LET d == DelimsOrDefault(scanDelims)
        c == scanCase
    IN /\ Len(scanOut) = 5
       /\ scanOut[1] = ScannedText(c.pre)
       /\ scanOut[2].Type = TagTokenType
       /\ scanOut[2].Name = c.name
       /\ scanOut[2].Args = c.args
       /\ scanOut[2].Source = TagSrc(d, c)
       /\ scanOut[3] = ScannedText(c.mid)
       /\ scanOut[4].Type = ObjTokenType
       /\ scanOut[4].Name = <<>>
       /\ scanOut[4].Args = c.expr
       /\ scanOut[4].Source = ObjSrc(d, c)
       /\ scanOut[5] = ScannedText(c.post)

\* preTAG*LEFT tag args TAG!RIGHTpreOBJECT@LEFT object OBJECT#RIGHTpost
C10_Witness ==
  /\ scanPc = "scanned"
  /\ scanDelims = TestDelims
  /\ scanCase.pad = <<" ">>
  /\ scanCase.pre = <<"p", "r", "e">>
  /\ Len(scanOut) = 5
  /\ scanOut[2].Name = <<"t", "a", "g">>
  /\ scanOut[2].Args = <<"a", "r", "g", "s">>
  /\ scanOut[4].Args = <<"o", "b", "j", "e", "c", "t">>
  /\ ~scanOut[2].TrimLeft /\ ~scanOut[4].TrimRight

----------------------------------------------------------------------------
\* A - stands right after the left marker of the token's source.
DashAfterLeft(tok, left) == HasAt(tok.Source, Len(left) + 1, <<"-">>)

\* A - stands right before the right marker of the token's source.
DashBeforeRight(tok, right) == HasAt(tok.Source, Len(tok.Source) - Len(right), <<"-">>)

\* C11: on a tag token and on an object token alike, TrimLeft is true
\* exactly when a - follows the left marker and TrimRight exactly when a -
\* precedes the right marker, each whatever the other is; the - marks are
\* in neither Name nor Args.
C11_TrimFlags ==
  scanPc = "scanned" =>
    LET d == DelimsOrDefault(scanDelims)
        c == scanCase
        tag == scanOut[2]
        obj == scanOut[4]
    IN /\ Len(scanOut) = 5
       /\ tag.Type = TagTokenType /\ obj.Type = ObjTokenType
       /\ tag.TrimLeft <=> DashAfterLeft(tag, d[3])
       /\ tag.TrimRight <=> DashBeforeRight(tag, d[4])
       /\ obj.TrimLeft <=> DashAfterLeft(obj, d[1])
       /\ obj.TrimRight <=> DashBeforeRight(obj, d[2])
       /\ tag.TrimLeft = c.tagTrimLeft /\ tag.TrimRight = c.tagTrimRight
       /\ obj.TrimLeft = c.objTrimLeft /\ obj.TrimRight = c.objTrimRight
       /\ tag.Name = c.name /\ tag.Args = c.args
       /\ obj.Name = <<>> /\ obj.Args = c.expr

\* ...{% tag args -%}...{{- object }}... under the default markers
C11_Witness ==
  /\ scanPc = "scanned"
  /\ scanDelims = <<>>
  /\ scanCase.pad = <<" ">>
  /\ Len(scanOut) = 5
  /\ scanOut[2].Source =
       <<"{", "%", " ", "t", "a", "g", " ", "a", "r", "g", "s", " ", "-", "%", "}">>
  /\ scanOut[2].Name = <<"t", "a", "g">> /\ scanOut[2].Args = <<"a", "r", "g", "s">>
  /\ ~scanOut[2].TrimLeft /\ scanOut[2].TrimRight
  /\ scanOut[4].Source = <<"{", "{", "-", " ", "o", "b", "j", "e", "c", "t", " ", "}", "}">>
  /\ scanOut[4].Args = <<"o", "b", "j", "e", "c", "t">>
  /\ scanOut[4].TrimLeft /\ ~scanOut[4].TrimRight

----------------------------------------------------------------------------
\* The source scans to the five tokens pre, tag, mid, object, post.
FiveTokensOf(c) ==
  /\ Len(scanOut) = 5
  /\ scanOut[1] = ScannedText(c.pre)
  /\ scanOut[2].Type = TagTokenType
  /\ scanOut[2].Name = c.name /\ scanOut[2].Args = c.args
  /\ scanOut[3] = ScannedText(c.mid)
  /\ scanOut[4].Type = ObjTokenType
  /\ scanOut[4].Name = <<>> /\ scanOut[4].Args = c.expr
  /\ scanOut[5] = ScannedText(c.post)

\* C12: with a list of four delimiters only those strings delimit tokens:
\* a source written with them scans to its object and tag tokens, and a
\* source written with the default markers is one text token; with an
\* empty list the default markers delimit.
C12_CustomDelims ==
  scanPc = "scanned" =>
    /\ (scanDelims = <<>> /\ scanCase.written = DefaultDelims) => FiveTokensOf(scanCase)
    /\ (Len(scanDelims) = 4 /\ scanCase.written = scanDelims) => FiveTokensOf(scanCase)
    /\ (Len(scanDelims) = 4 /\ scanDelims # DefaultDelims
          /\ scanCase.written = DefaultDelims) => scanOut = <<ScannedText(scanSrc)>>

\* pre{% tag args %}mid{{ object }}post under the markers of TestScan_delims
C12_Witness ==
  /\ scanPc = "scanned"
  /\ scanDelims = TestDelims
  /\ scanCase.written = DefaultDelims
  /\ scanCase.pad = <<" ">>
  /\ scanCase.args = <<"a", "r", "g", "s">>
  /\ HasAt(scanSrc, 4, <<"{", "%", " ", "t", "a", "g">>)
  /\ Len(scanOut) = 1
  /\ scanOut[1].Type = TextTokenType
  /\ scanOut[1].Source = scanSrc

----------------------------------------------------------------------------
\* C13: Scan emits no text token of length zero: a run of N tags and
\* objects written back to back scans to exactly N tokens, one per tag or
\* object; a non-empty source that holds no marker scans to one text token
\* whose Source is the whole input.
C13_NoEmptyText ==
  scanPc = "scanned" =>
    LET run == scanCase.run
        lead == IF scanCase.text = <<>> THEN 0 ELSE 1
    IN /\ \A i \in 1..Len(scanOut) :
            scanOut[i].Type = TextTokenType => scanOut[i].Source # <<>>
       /\ Len(scanOut) = lead + Len(run)
       /\ \A i \in 1..Len(run) :
            /\ scanOut[lead + i].Type =
                 (IF run[i] \in {"tag", "tag arg"} THEN TagTokenType ELSE ObjTokenType)
            /\ scanOut[lead + i].Source = Piece(DelimsOrDefault(scanDelims), run[i])
       /\ (run = <<>> /\ scanSrc # <<>>) => scanOut = <<ScannedText(scanSrc)>>

\* {% tag arg %}{{ expr }}{% tag %} scans to three tokens
C13_Witness ==
  /\ scanPc = "scanned"
  /\ scanDelims = <<>>
  /\ scanCase.text = <<>>
  /\ scanCase.run = <<"tag arg", "expr", "tag">>
  /\ Len(scanOut) = 3
  /\ scanOut[1].Type = TagTokenType
  /\ scanOut[2].Type = ObjTokenType
  /\ scanOut[3].Type = TagTokenType

----------------------------------------------------------------------------
\* C14: looking up a name that is no key of the bindings panics under
\* StrictMode with the UndefinedVariable error  undefined variable "<name>"
\* and returns nil under LaxMode; a name that is a key yields the value
\* bound to it under both modes.
C14_UndefinedVariable ==
  lookup.op = "GetVariable" =>
    LET name == lookup.name
        out == lookup.out
    IN /\ name \in DOMAIN bindings => ~out.panics /\ out.val = bindings[name]
       /\ (name \notin DOMAIN bindings /\ cfg.VariableErrorMode = StrictMode) =>
            /\ out.panics
            /\ out.err = <<"undefined variable ", "\"" \o name \o "\"">>
       /\ (name \notin DOMAIN bindings /\ cfg.VariableErrorMode = LaxMode) =>
            ~out.panics /\ out.val = Nil /\ out.err = <<>>

\* x is not bound and the variables are strict: undefined variable "x"
C14_Witness ==
  /\ lookup.op = "GetVariable"
  /\ lookup.name = "x"
  /\ "x" \notin DOMAIN bindings
  /\ "page" \in DOMAIN bindings
  /\ cfg.VariableErrorMode = StrictMode
  /\ lookup.out.panics
  /\ lookup.out.err = <<"undefined variable ", "\"x\"">>

----------------------------------------------------------------------------
\* C15: a registered filter name yields the registered filter under both
\* modes; an unregistered one panics with an undefined-filter error under
\* StrictMode and yields the identity under LaxMode.  NewConfig is strict
\* for filters and lax for variables: with these modes an expression piped
\* into an unregistered filter fails with "undefined filter" and an unbound
\* variable evaluates to nil.
C15_UndefinedFilter ==
  /\ NewConfig.FilterErrorMode = StrictMode /\ NewConfig.VariableErrorMode = LaxMode
  /\ lookup.op = "GetFilter" =>
       LET name == lookup.name
           out == lookup.out
       IN /\ name \in DOMAIN cfg.filters => ~out.panics /\ out.val = cfg.filters[name]
          /\ (name \notin DOMAIN cfg.filters /\ cfg.FilterErrorMode = StrictMode) =>
               out.panics /\ Head(out.err) = "undefined filter "
          /\ (name \notin DOMAIN cfg.filters /\ cfg.FilterErrorMode = LaxMode) =>
               /\ ~out.panics
               /\ \A v \in Values : Apply(out.val, v) = v
  /\ (/\ lookup.op = "Evaluate"
      /\ cfg.FilterErrorMode = NewConfig.FilterErrorMode
      /\ cfg.VariableErrorMode = NewConfig.VariableErrorMode) =>
       LET out == lookup.out
       IN /\ (lookup.filter # "" /\ lookup.filter \notin DOMAIN cfg.filters) =>
               out.err # <<>> /\ Head(out.err) = "undefined filter "
          /\ (lookup.filter = "" /\ lookup.var \notin DOMAIN bindings) =>
               out.err = <<>> /\ out.val = Nil

\* x | undefined_filter with x bound, the modes those of NewConfig
C15_Witness ==
  /\ lookup.op = "Evaluate"
  /\ lookup.var = "x" /\ lookup.filter = "undefined_filter"
  /\ "x" \in DOMAIN bindings /\ bindings["x"] = "123"
  /\ cfg.FilterErrorMode = StrictMode /\ cfg.VariableErrorMode = LaxMode
  /\ lookup.out.err = <<"undefined filter ", "\"undefined_filter\"">>

----------------------------------------------------------------------------
(* The counters read on their own terms *)

\* The counters a state mapping holds.
CountsOf(m) == IF "counters" \in DOMAIN m THEN m["counters"].m ELSE EmptyMap

\* The nodes of t that run: those before the first node that fails.
RECURSIVE Ran(_)
Ran(t) ==
  IF t = <<>> THEN <<>>
  ELSE IF Head(t).tag = "assign" /\ cfg.FilterErrorMode = StrictMode THEN <<>>
  ELSE <<Head(t)>> \o Ran(Tail(t))

\* The number a counter tag writes, the counters being counts.
Writes(node, counts) ==
  IF node.args \in DOMAIN counts
  THEN counts[node.args] + (IF node.tag = "increment" THEN 1 ELSE -1)
  ELSE (IF node.tag = "increment" THEN 0 ELSE -1)

\* The counters after the nodes of t have run from counts on.
RECURSIVE CountsAfter(_, _)
CountsAfter(t, counts) ==
  IF t = <<>> THEN counts
  ELSE IF Head(t).tag = "assign" THEN CountsAfter(Tail(t), counts)
  ELSE CountsAfter(Tail(t), Put(counts, Head(t).args, Writes(Head(t), counts)))

\* The numbers the nodes of t write from counts on, in decimal, in a row.
RECURSIVE OutputOf(_, _)
OutputOf(t, counts) ==
  IF t = <<>> THEN ""
  ELSE IF Head(t).tag = "assign" THEN OutputOf(Tail(t), counts)
  ELSE Itoa(Writes(Head(t), counts))
         \o OutputOf(Tail(t), Put(counts, Head(t).args, Writes(Head(t), counts)))

\* Call c runs a node in this step.
Stepping(c) ==
  /\ c \in 1..Len(calls)
  /\ calls[c].status = "running"
  /\ calls[c].pos <= Len(template)
  /\ Len(calls') = Len(calls)
  /\ calls'[c] # calls[c]

IncAbc == CounterNode(increment, "abc")
DecAbc == CounterNode(decrement, "abc")
IncDef == CounterNode(increment, "def")

\* A Render of template t that has returned has returned out.
RendersTo(t, out) ==
  \A c \in 1..Len(calls) :
    (template = t /\ calls[c].entry = "Render" /\ calls[c].status = "returned") =>
      ~calls[c].ret.isNil /\ calls[c].ret.bytes = out /\ calls[c].ret.err = <<>>

----------------------------------------------------------------------------
C16_CounterStep ==
  \A c \in 1..Len(calls) :
    (Stepping(c) /\ template[calls[c].pos].tag \in {"increment", "decrement"}) =>
      LET node == template[calls[c].pos]
          name == node.args
          before == CountsOf(states[calls[c].state].m)
          after == CountsOf(states'[calls[c].state].m)
      IN /\ DOMAIN after = DOMAIN before \cup {name}
         /\ \A n \in DOMAIN before \ {name} : after[n] = before[n]
         /\ name \notin DOMAIN before =>
              after[name] = (IF node.tag = "increment" THEN 0 ELSE -1)
         /\ name \in DOMAIN before =>
              after[name] = before[name] + (IF node.tag = "increment" THEN 1 ELSE -1)
         /\ calls'[c].status = "running"
         /\ calls'[c].buf = calls[c].buf \o Itoa(after[name])

\* C16: in one render, increment and decrement work on one counter per
\* argument name.  The first use of a name writes and stores the default of
\* the tag (0 for increment, -1 for decrement); every later use writes and
\* stores the stored value plus 1 (increment) or minus 1 (decrement); the
\* counters of the other names stay as they are.  So three increments write
\* 012, three decrements -1-2-3, and three increments and a decrement 0121.
C16_SharedCounter ==
  /\ [](/\ RendersTo(<<IncAbc, IncAbc, IncAbc>>, "012")
        /\ RendersTo(<<DecAbc, DecAbc, DecAbc>>, "-1-2-3")
        /\ RendersTo(<<IncAbc, IncAbc, IncAbc, DecAbc>>, "0121")
        /\ RendersTo(<<IncAbc, IncAbc, IncDef, DecAbc>>, "0100"))
  /\ [][C16_CounterStep]_vars

\* {% increment abc %} three times, then {% decrement abc %}: 0121
C16_Witness ==
  /\ template = <<IncAbc, IncAbc, IncAbc, DecAbc>>
  /\ Len(calls) = 1
  /\ calls[1].entry = "Render"
  /\ calls[1].status = "returned"
  /\ calls[1].ret.bytes = "0121"
  /\ CountsOf(states[1].m) = [n \in {"abc"} |-> 1]

----------------------------------------------------------------------------
\* The counters of its state mapping when call c began: those the earlier
\* renders given the same mapping left, none for the first.
RECURSIVE StartCounts(_)
StartCounts(c) ==
  LET earlier == {d \in 1..(c - 1) : calls[d].state = calls[c].state}
  IN IF earlier = {} THEN EmptyMap
     ELSE LET d == CHOOSE e \in earlier : \A f \in earlier : f <= e
          IN CountsAfter(Ran(template), StartCounts(d))

\* A call begins in this step.
Calling == Len(calls') = Len(calls) + 1

C17_CallStep ==
  Calling =>
    LET new == calls'[Len(calls')]
    IN /\ new.entry \in {"Render", "RenderString"} =>
            /\ states'[new.state].m = EmptyMap
            /\ \A d \in 1..Len(calls) : calls[d].state # new.state
       /\ (new.entry = "RenderWithState" /\ new.state \in 1..Len(states)) =>
            states'[new.state] = states[new.state]

\* C17: the counters live as long as the state mapping of the render.
\* Render starts from a new, empty mapping on every call, so every Render
\* of a template with the same bindings returns the same output;
\* RenderWithState given the mapping of an earlier render goes on from the
\* counters that render left.
C17_StateLifetime ==
  /\ [](\A c \in 1..Len(calls) :
          (calls[c].status = "returned" /\ calls[c].ret.err = <<>>) =>
            /\ calls[c].ret.bytes = OutputOf(template, StartCounts(c))
            /\ calls[c].entry \in {"Render", "RenderString"} =>
                 calls[c].ret.bytes = OutputOf(template, EmptyMap))
  /\ [](\A c, d \in 1..Len(calls) :
          (/\ calls[c].entry \in {"Render", "RenderString"}
           /\ calls[d].entry \in {"Render", "RenderString"}
           /\ calls[c].status = "returned" /\ calls[d].status = "returned") =>
            calls[c].ret.bytes = calls[d].ret.bytes /\ calls[c].ret.err = calls[d].ret.err)
  /\ [][C17_CallStep]_vars

\* {% increment abc %}{% increment abc %} rendered twice with one state
\* mapping: 01, then 23.
C17_Witness ==
  /\ template = <<IncAbc, IncAbc>>
  /\ Len(calls) = 2
  /\ calls[1].entry = "RenderWithState" /\ calls[2].entry = "RenderWithState"
  /\ calls[1].state = calls[2].state
  /\ calls[1].status = "returned" /\ calls[1].ret.bytes = "01"
  /\ calls[2].status = "returned" /\ calls[2].ret.bytes = "23"

----------------------------------------------------------------------------
\* The first n nodes of t.
Prefix(t, n) == SubSeq(t, 1, n)

C18_RenderStep ==
  /\ template' = template
  /\ \A c \in 1..Len(calls) :
       Stepping(c) =>
         \A d \in 1..Len(calls) :
           d # c => calls'[d] = calls[d] /\ states'[calls[d].state] = states[calls[d].state]

\* C18: Render calls running at the same time on one Template, their tag
\* executions interleaved in any order, each write and return what they
\* would alone: no call shares its state mapping with another, a step of
\* one call leaves the state and the buffer of the others alone, and the
\* template is never changed.
C18_ConcurrentRenders ==
  /\ [](\A c \in 1..Len(calls) :
          /\ \A d \in 1..Len(calls) : d # c => calls[d].state # calls[c].state
          /\ calls[c].buf = OutputOf(Prefix(template, calls[c].pos - 1), EmptyMap)
          /\ CountsOf(states[calls[c].state].m) =
               CountsAfter(Prefix(template, calls[c].pos - 1), EmptyMap)
          /\ calls[c].status = "returned" =>
               /\ calls[c].ret.err = <<>>
               /\ calls[c].ret.bytes = OutputOf(template, EmptyMap))
  /\ [][C18_RenderStep]_vars

\* Three increments: the second Render has returned 012 while the first,
\* begun before it, has written 0 and is still running.
C18_Witness ==
  /\ template = <<IncAbc, IncAbc, IncAbc>>
  /\ Len(calls) = 2
  /\ calls[1].status = "running" /\ calls[1].pos = 2 /\ calls[1].buf = "0"
  /\ calls[2].status = "returned" /\ calls[2].ret.bytes = "012"

----------------------------------------------------------------------------
\* The error of compiling node n by itself, its children apart: a tag with
\* no compiler, an assign whose statement does not parse, an error_block.
OwnCompileError(n) ==
  LET tok == tokens[nodes[n].tok]
  IN IF nodes[n].kind = "Tag" /\ tok.Name = "undefined_tag"
     THEN <<"undefined tag ", "\"undefined_tag\"">>
     ELSE IF nodes[n].kind = "Tag" /\ tok.Name = "assign" /\ tok.Args = "v x y z"
     THEN <<"syntax error">>
     ELSE IF nodes[n].kind = "Block" /\ tok.Name = "error_block"
     THEN <<"block compiler error">>
     ELSE <<>>

\* The nodes of the parsed tree that do not compile, at any depth.
FailingNodes == {n \in 2..Len(nodes) : OwnCompileError(n) # <<>>}

\* The blocks node n lies in.
RECURSIVE Depth(_)
Depth(n) ==
  LET holders == {m \in 1..Len(nodes) : n \in Range(nodes[m].Body)}
  IN IF n = 1 \/ holders = {} \/ 1 \in holders THEN 0
     ELSE 1 + Depth(CHOOSE m \in holders : TRUE)

\* C19: compilation yields the whole tree or nothing.  When the parse failed,
\* or a node of the tree, at any depth, has no compiler or its compiler
\* returns an error, Compile returns a nil root with that error and
\* newTemplate a nil Template with it; a Template is only ever made of a
\* source that parsed and whose every node compiled.
C19_AllOrNothing ==
  /\ compiled.called =>
       /\ ret.err # <<>> => compiled.root = 0 /\ compiled.err = ret.err
       /\ (ret.err = <<>> /\ FailingNodes # {}) =>
            /\ compiled.root = 0
            /\ compiled.err \in {OwnCompileError(n) : n \in FailingNodes}
       /\ (ret.err = <<>> /\ FailingNodes = {}) =>
            compiled.root = ret.ast /\ compiled.err = <<>>
  /\ created.called =>
       /\ created.isNil <=> (ret.err # <<>> \/ FailingNodes # {})
       /\ created.isNil => created.err = compiled.err /\ created.err # <<>>
       /\ ~created.isNil => created.root = ret.ast /\ created.err = <<>>

\* {% if x %}{% assign v x y z %}{% endif %}: no Template, syntax error
C19_Witness ==
  /\ tokens = <<TagToken("if"), AssignToken("v x y z"), TagToken("endif")>>
  /\ ret.err = <<>>
  /\ \E n \in FailingNodes : Depth(n) = 1
  /\ compiled.called /\ compiled.root = 0 /\ compiled.err = <<"syntax error">>
  /\ created.called /\ created.isNil /\ created.err = <<"syntax error">>

----------------------------------------------------------------------------
\* C20: when a render fails partway, what was written before the failure is
\* not taken back: the caller of Render, RenderString or RenderWithState
\* gets, with the error, the output written up to the failure.
C20_PartialOutputReturned ==
  \A c \in 1..Len(calls) :
    (calls[c].status = "returned" /\ calls[c].ret.err # <<>>) =>
      calls[c].ret.bytes = calls[c].buf

----------------------------------------------------------------------------
\* C21: Convert to the boolean type returns false exactly when the value is
\* nil or the boolean false, and true for every other value, the integer 0
\* and the empty string among them; it returns no error.
C21_ConvertToBool ==
  (valueRet.done /\ valueCall.typ = BoolType) =>
    /\ valueRet.err = NilError
    /\ valueRet.val \in {GoBool(TRUE), GoBool(FALSE)}
    /\ valueRet.val = GoBool(FALSE) <=> valueCall.value \in {GoNil, GoBool(FALSE)}

\* The empty string has been converted to the boolean type, and came out true.
C21_Witness ==
  /\ valueRet.done
  /\ valueCall.typ = BoolType
  /\ valueCall.value = GoString(<<>>)
  /\ valueRet.val = GoBool(TRUE)

----------------------------------------------------------------------------
\* C22: the concat filter applied to arrays a and b returns an array of
\* len(a)+len(b) elements: the elements of a in order, then those of b in
\* order; with an empty b it returns the elements of a.
C22_ConcatAppends ==
  (valueRet.done /\ valueCall.fn = "concat") =>
    /\ Len(valueRet.val) = Len(valueCall.a) + Len(valueCall.b)
    /\ valueRet.val = valueCall.a \o valueCall.b

----------------------------------------------------------------------------
\* C23: divided_by with a divisor that converts to an integer other than 0
\* returns the int64 quotient, truncated toward zero, of the dividend
\* truncated to an integer (16/4 = 4, 5/3 = 1, 20/7 = 2); with a divisor that
\* converts to the integer 0, as a non-numeric one does, it returns the error
\* "divided by 0"; the result is a float only when the divisor is a float.
C23_DividedBy ==
  (/\ valueRet.done
   /\ valueCall.fn = "divided_by"
   /\ Convert(valueCall.x, "float64").err = NilError) =>
    LET a == Convert(valueCall.x, "float64").val
        b == Convert(valueCall.y, NumberType).val
        t == FloatToInt(a.n, a.d)
        q == valueRet.val.n
    IN /\ (~b.b /\ b.n = 0) =>
            valueRet.err = Errorf("divided by 0") /\ valueRet.val = GoNil
       /\ (~b.b /\ b.n # 0) =>
            /\ valueRet.err = NilError
            /\ valueRet.val.type = "int64"
            /\ Abs(t) * a.d <= Abs(a.n) /\ Abs(a.n) < (Abs(t) + 1) * a.d
            /\ Abs(q) * Abs(b.n) <= Abs(t) /\ Abs(t) < (Abs(q) + 1) * Abs(b.n)
            /\ q # 0 => ((q > 0) <=> ((t > 0) = (b.n > 0)))
       /\ b.b => valueRet.err = NilError /\ valueRet.val.type = "float64"
       /\ valueCall.y = GoString(<<"s">>) => valueRet.err = Errorf("divided by 0")
       /\ (valueCall.x = GoInt("int", 16) /\ valueCall.y = GoInt("int", 4)) => q = 4
       /\ (valueCall.x = GoInt("int", 5) /\ valueCall.y = GoInt("int", 3)) => q = 1
       /\ (valueCall.x = GoInt("int", 20) /\ valueCall.y = GoInt("int", 7)) => q = 2

\* 20 has been divided by the string "s", and the call returned the error.
C23_Witness ==
  /\ valueRet.done
  /\ valueCall.fn = "divided_by"
  /\ valueCall.x = GoInt("int", 20)
  /\ valueCall.y = GoString(<<"s">>)
  /\ valueRet.err = Errorf("divided by 0")

----------------------------------------------------------------------------
\* C27: conversion to Number keeps integers: for a value v of any Go integer
\* type, Convert(v, Number) returns, with no error, a Number that is not a
\* float and whose AsInt64 is v.
C27_IntegersPreserved ==
  (/\ valueRet.done
   /\ valueCall.typ = NumberType
   /\ valueCall.value.type \in IntTypes) =>
    /\ valueRet.err = NilError
    /\ ~valueRet.val.b
    /\ AsInt64(valueRet.val) = valueCall.value.n

----------------------------------------------------------------------------
\* C28: Convert of a bool, a decimal string or a json.Number to a fixed-width
\* integer type makes no range check: the value is parsed as a 64-bit integer
\* and cut to the target's width (modulo 2^w, negatives wrapping for unsigned
\* targets) with a nil error, so "300" to int8 is 44 and "-1" to uint8 is 255;
\* only input that does not parse returns an error.
C28_NoRangeCheck ==
  (/\ valueRet.done
   /\ valueCall.typ \in IntTypes
   /\ valueCall.value.type \in {"bool", "string", "json.Number"}) =>
    LET v == valueCall.value
        w == Width(valueCall.typ)
        parsed == IF v.type = "bool"
                  THEN [ok |-> TRUE, v |-> IF v.b THEN 1 ELSE 0]
                  ELSE ParseInt(v.s)
        r == valueRet.val.n
    IN /\ valueRet.val.type = valueCall.typ
       /\ parsed.ok <=> valueRet.err = NilError
       /\ ~parsed.ok =>
            /\ r = 0
            /\ valueRet.err = conversionError("", v, valueCall.typ)
       /\ (parsed.ok /\ w > 16) => r = parsed.v
       /\ (parsed.ok /\ w <= 16) =>
            /\ (r - parsed.v) % (2 ^ w) = 0
            /\ IF valueCall.typ \in SignedTypes
               THEN -(2 ^ (w - 1)) <= r /\ r < 2 ^ (w - 1)
               ELSE 0 <= r /\ r < 2 ^ w
       /\ (v = GoString(<<"3", "0", "0">>) /\ valueCall.typ = "int8") => r = 44
       /\ (v = GoString(<<"-", "1">>) /\ valueCall.typ = "uint8") => r = 255
       /\ v \in {GoString(<<"s">>), GoString(<<"2", ".", "5">>), GoString(<<>>)} => ~parsed.ok

\* The string "300" has been converted to int8: 44 and no error.
C28_Witness ==
  /\ valueRet.done
  /\ valueCall.value = GoString(<<"3", "0", "0">>)
  /\ valueCall.typ = "int8"
  /\ valueRet.val = GoInt("int8", 44)
  /\ valueRet.err = NilError

----------------------------------------------------------------------------
\* C24: under the standard grammar, after any prefix of any token sequence
\* consumed without error, the block node is nil exactly when the syntax is
\* nil and exactly when the stack is empty, and the stack holds one frame per
\* block still open; so a block-end tag never pops an empty stack and a
\* clause tag never reaches a nil block node: parseTokens never panics.
C24_StackInvariant ==
  /\ pc # "panic"
  /\ pc \in {"loop", "done"} =>
       /\ (bn = NilNode) <=> (sd = NilSyntax)
       /\ (sd = NilSyntax) <=> (stack = <<>>)
       /\ Len(stack) = Len(OpenBlocks)
       /\ bn = EnclosingBlock(nodes, tokens)

\* {% if x %}{% else %}{% for a in b %}{% endfor %}: one block open, one
\* frame on the stack, after a clause and a block-end.
C24_Witness ==
  /\ tokens = <<TagToken("if"), TagToken("else"), TagToken("for"), TagToken("endfor")>>
  /\ pc = "loop"
  /\ Len(stack) = 1 /\ bn = 2 /\ sd = "if"

----------------------------------------------------------------------------
\* C25: comment and raw modes push no frame and are not checked at the end
\* of the input: a token sequence that ends in comment or raw mode with no
\* block open parses with no error, the tokens after the comment tag adding
\* nothing and the Raw node holding the Source of every token after the raw
\* tag; the two modes are never on together.
C25_ModesUnchecked ==
  /\ ~(inComment /\ inRaw)
  /\ (pc = "loop" /\ (inComment \/ inRaw)) => Len(stack) = Len(OpenBlocks)
  /\ (pc = "done" /\ (inComment \/ inRaw) /\ OpenBlocks = <<>>) =>
       /\ ret = ReturnRoot
       /\ inComment <=> Reading(tokens).mode = "comment"
       /\ inRaw <=> Reading(tokens).mode = "raw"
       /\ inRaw => nodes[rawTag].Slices = Last(RawContents(tokens))
       /\ inComment =>
            \A n \in 2..Len(nodes) :
              nodes[n].kind # "Raw" =>
                Reading(SubSeq(tokens, 1, nodes[n].tok)).mode # "comment"

\* t{% raw %}{% if x %}{{ x }} and the end of the input: the tree is
\* returned, its Raw node holding the two tokens after the raw tag.
C25_Witness ==
  /\ tokens = <<TextToken("t"), TagToken("raw"), TagToken("if"), ObjToken("x")>>
  /\ pc = "done" /\ inRaw
  /\ ret = ReturnRoot
  /\ nodes[rawTag].Slices = <<"{% if x %}", "{{ x }}">>

----------------------------------------------------------------------------
\* C26: when several nested blocks are open at the end of the input, the
\* unterminated-block error names the innermost one, the last opened and not
\* yet closed, and is located at that block's tag; no outer block is named.
C26_InnermostNamed ==
  (pc = "done" /\ OpenBlocks # <<>>) =>
    /\ ret.ast = NilNode
    /\ ret.err = UnterminatedMsg(tokens[Last(OpenBlocks)].Name)
    /\ ret.at = Last(OpenBlocks)
    /\ \A k \in 1..(Len(OpenBlocks) - 1) :
         tokens[OpenBlocks[k]].Name # tokens[Last(OpenBlocks)].Name =>
           ~Contains(ret.err, Quote(tokens[OpenBlocks[k]].Name))

\* {% if x %}{% for a in b %}t and the end of the input: unterminated "for".
C26_Witness ==
  /\ tokens = <<TagToken("if"), TagToken("for"), TextToken("t")>>
  /\ pc = "done"
  /\ ret = ReturnError(<<"unterminated ", "\"for\"", " block">>, 2)

----------------------------------------------------------------------------
\* The Source fields of the tokens, one after the other.
RECURSIVE SourcesOf(_)
SourcesOf(toks) == IF toks = <<>> THEN <<>> ELSE Head(toks).Source \o SourcesOf(Tail(toks))

\* C29: scanning is lossless: for every source, the Source fields of the
\* tokens Scan returns, concatenated in order, are the source itself.
C29_Lossless ==
  scanPc = "scanned" => SourcesOf(scanOut) = scanSrc

\* a{%a%}: a text token and a tag token, "a" and "{%a%}".
C29_Witness ==
  /\ scanPc = "scanned"
  /\ scanSrc = <<"a", "{", "%", "a", "%", "}">>
  /\ Len(scanOut) = 2
  /\ scanOut[1].Source = <<"a">>
  /\ scanOut[2].Type = TagTokenType
  /\ scanOut[2].Source = <<"{", "%", "a", "%", "}">>

----------------------------------------------------------------------------
\* C30: the undefined-variable policy is triggered by the absence of the key,
\* not by a nil value: GetVariable on a name bound to nil returns nil under
\* StrictMode and under LaxMode without calling the handler, which is called
\* exactly when the name is no key of the bindings; GetVariable and GetFilter
\* leave the bindings and the filter registry as they were.
C30_NilIsBound ==
  /\ [](/\ lookup.op = "GetVariable" =>
             /\ lookup.out.handled <=> lookup.name \notin DOMAIN bindings
             /\ (lookup.name \in DOMAIN bindings /\ bindings[lookup.name] = Nil) =>
                  lookup.out = Returned(Nil)
        /\ lookup.op = "GetFilter" =>
             (lookup.out.handled <=> lookup.name \notin DOMAIN cfg.filters))
  /\ [][lookup'.op \in {"GetVariable", "GetFilter"} =>
          bindings' = bindings /\ cfg' = cfg]_vars

\* x is bound to nil and the variables are strict: GetVariable returned nil.
C30_Witness ==
  /\ cfg.VariableErrorMode = StrictMode
  /\ "x" \in DOMAIN bindings /\ bindings["x"] = Nil
  /\ lookup.op = "GetVariable"
  /\ lookup.name = "x"
  /\ lookup.out = Returned(Nil)

====
